---------------------------- MODULE Spec2Model ----------------------------
(***************************************************************************)
(* Model of the ktree ontology-construction pipeline:                      *)
(*   rootDomains.ts        discoverRootAndTopLevelDomains (retry loop)     *)
(*   structureGenerator    generateStructureForDomains (clustering)        *)
(*   subtopicLabeler       generateSubtopicStructure(s) (retry loop)       *)
(*   topicAssigner         assignFilesToSubtopics, validateAssignmentResult*)
(*   databaseOperations    persistOntologyToDatabase (one transaction)     *)
(*   OntologyService       buildOntology (the five phases)                 *)
(*                                                                         *)
(* Embedding vectors are integer vectors; a cosine similarity d/sqrt(n) is *)
(* kept exactly as the pair (d, n), so comparisons are those of real       *)
(* arithmetic (the rounding of IEEE doubles is not modelled).              *)
(***************************************************************************)
EXTENDS Integers, Sequences, FiniteSets, TLC

VARIABLES
  pc,                 \* position of buildOntology, or the name of the function under test
  fileRecords,        \* buildOntology's fileRecords, each with the vector the embedder returns for it
  domains,            \* result of discoverRootAndTopLevelDomains
  clusters,           \* result of generateStructureForDomains
  subtopicStructures, \* results[] of generateSubtopicStructuresForAllDomains
  assignments,        \* results[] of assignFilesForAllDomains
  idx,                \* loop index i of the per-domain loops (0-based)
  attempt,            \* loop variable attempt of the running retry loop
  lpc,                \* position inside the retry loop: "call" or "backoff"
  providerCalls,      \* provider requests made by the running invocation
  waits,              \* backoff waits (seconds) made by the running invocation
  llmCallCount,       \* buildOntology's llmCallCount
  outcome,            \* how the function under test ended: returned value or thrown error
  phaseLog,           \* phases started by this buildOntology, with the arguments they received
  store,              \* the database under test: ontology.sqlite as [topics, links]
  storeBefore,        \* store when buildOntology / persistOntologyToDatabase was called
  txn,                \* persistOntologyToDatabase: transaction frame (position, arguments, locals)
  runs                \* completed invocations of the function under test

vars == << pc, fileRecords, domains, clusters, subtopicStructures, assignments,
           idx, attempt, lpc, providerCalls, waits, llmCallCount, outcome,
           phaseLog, store, storeBefore, txn, runs >>

NoValue == [none |-> TRUE]

-----------------------------------------------------------------------------
(* Bounds of the model                                                     *)

ClMaxFiles == 3
ClMaxDomains == 2

(* Vectors the embedding provider may return.  <<4,1>> has similarity      *)
(* 0.24 to <<0,1>> (below the threshold, above 0), <<-1,0>> has -1 to      *)
(* <<1,0>>, <<0,0>> is the zero vector and <<1>> has another dimension.    *)
Vecs == { <<1, 0>>, <<0, 1>>, <<4, 1>>, <<0, 0>>, <<-1, 0>>, <<1>> }

FileIdOf(i) == "f" \o ToString(i)
FilePathOf(i) == "p" \o ToString(i)
DomainTitleOf(i) == "D" \o ToString(i)

-----------------------------------------------------------------------------
(* structureGenerator: cosine similarity                                   *)

RECURSIVE SumTo(_, _)
SumTo(f, n) == IF n = 0 THEN 0 ELSE f[n] + SumTo(f, n - 1)

Dot(a, b) == SumTo([i \in 1..Len(a) |-> a[i] * b[i]], Len(a))

(* cosineSimilarity(a, b) for vectors of one length: dot / (sqrt(normA) *   *)
(* sqrt(normB)) is kept as [d |-> dot, n |-> normA * normB]; a zero vector   *)
(* gives similarity 0.                                                      *)
cosineSimilarity(a, b) ==
  LET dotProduct == Dot(a, b)
      normA == Dot(a, a)
      normB == Dot(b, b)
  IN IF normA = 0 \/ normB = 0
       THEN [d |-> 0, n |-> 1]
       ELSE [d |-> dotProduct, n |-> normA * normB]

(* cosineSimilarity throws "Vectors must have the same length"             *)
LengthMismatch(a, b) == Len(a) # Len(b)

Sgn(x) == IF x > 0 THEN 1 ELSE IF x < 0 THEN -1 ELSE 0

(* s1 > s2 for similarities d/sqrt(n), n > 0: x |-> sgn(x) * x^2 is monotone *)
SimGT(s1, s2) == Sgn(s1.d) * s1.d * s1.d * s2.n > Sgn(s2.d) * s2.d * s2.d * s1.n

ThresholdNum == 3
ThresholdDen == 10

(* similarity >= threshold, threshold = ThresholdNum / ThresholdDen > 0     *)
SimGEThreshold(s) ==
  s.d >= 0 /\ ThresholdDen * ThresholdDen * s.d * s.d >= ThresholdNum * ThresholdNum * s.n

-----------------------------------------------------------------------------
(* structureGenerator: findSimilarFiles, assignUnassignedFiles             *)

(* Array.prototype.sort with (a, b) => b.similarity - a.similarity is a     *)
(* stable descending sort: an element goes behind those not smaller.        *)
InsertBySimilarity(sorted, f, domainEmbedding) ==
  LET sf == cosineSimilarity(f.vec, domainEmbedding)
      k == Cardinality({ i \in 1..Len(sorted) :
                 ~SimGT(sf, cosineSimilarity(sorted[i].vec, domainEmbedding)) })
  IN SubSeq(sorted, 1, k) \o << f >> \o SubSeq(sorted, k + 1, Len(sorted))

(* variant: the selected files stay in input order                           *)
SortBySimilarityUnsorted(fs, domainEmbedding) == fs

RECURSIVE SortBySimilarity(_, _)
SortBySimilarity(fs, domainEmbedding) ==
  IF fs = << >> THEN << >>
  ELSE InsertBySimilarity(SortBySimilarity(SubSeq(fs, 1, Len(fs) - 1), domainEmbedding),
                          fs[Len(fs)], domainEmbedding)

KeepsAtThreshold(f, domainEmbedding) ==
  SimGEThreshold(cosineSimilarity(f.vec, domainEmbedding))

findSimilarFiles(files, domainEmbedding) ==
  SortBySimilarity(SelectSeq(files, LAMBDA f : KeepsAtThreshold(f, domainEmbedding)),
                   domainEmbedding)

(* the inner loop of assignUnassignedFiles: bestClusterIndex (0-based) for   *)
(* one file, starting from bestClusterIndex = 0, bestSimilarity = -1        *)
RECURSIVE BestClusterLoop(_, _, _, _, _)
BestClusterLoop(file, domainEmbeddings, i, bestClusterIndex, bestSimilarity) ==
  IF i >= Len(domainEmbeddings) THEN bestClusterIndex
  ELSE LET similarity == cosineSimilarity(file.vec, domainEmbeddings[i + 1])
       IN IF SimGT(similarity, bestSimilarity)
            THEN BestClusterLoop(file, domainEmbeddings, i + 1, i, similarity)
            ELSE BestClusterLoop(file, domainEmbeddings, i + 1, bestClusterIndex, bestSimilarity)

-----------------------------------------------------------------------------
(* generateStructureForDomains: the files no domain selects                  *)

(* variant: every unassigned file goes to the first cluster                  *)
BestClusterIndexFirst(file, domainEmbeddings) == 0

BestClusterIndex(file, domainEmbeddings) ==
  BestClusterLoop(file, domainEmbeddings, 0, 0, [d |-> -1, n |-> 1])

(* variant: the file replaces the cluster's candidates                      *)
PushCandidateReplacing(cls, k, file) ==
  [cls EXCEPT ![k + 1].candidates = << file >>]

PushCandidate(cls, k, file) ==
  [cls EXCEPT ![k + 1].candidates = Append(@, file)]

RECURSIVE assignUnassignedFiles(_, _, _)
assignUnassignedFiles(unassignedFiles, cls, domainEmbeddings) ==
  IF unassignedFiles = << >> THEN cls
  ELSE assignUnassignedFiles(
         Tail(unassignedFiles),
         PushCandidate(cls, BestClusterIndex(Head(unassignedFiles), domainEmbeddings),
                       Head(unassignedFiles)),
         domainEmbeddings)

CandidateIds(cls) ==
  UNION { { cls[i].candidates[j].id : j \in 1..Len(cls[i].candidates) } : i \in 1..Len(cls) }

(* generateStructureForDomains after the embeddings were obtained: the      *)
(* value returned, or the error thrown.                                     *)
generateStructureForDomains(files, doms) ==
  LET domainEmbeddings == [i \in 1..Len(doms.topLevelDomains) |-> doms.topLevelDomains[i].vec]
      mismatch == \E i \in 1..Len(files), j \in 1..Len(domainEmbeddings) :
                     LengthMismatch(files[i].vec, domainEmbeddings[j])
  IN IF mismatch
       THEN [threw |-> TRUE, error |-> "Vectors must have the same length", clusters |-> << >>]
       ELSE
       LET thresholded == [i \in 1..Len(domainEmbeddings) |->
                             [domain |-> doms.topLevelDomains[i],
                              candidates |-> findSimilarFiles(files, domainEmbeddings[i]),
                              similarity_threshold |-> << ThresholdNum, ThresholdDen >>]]
           assignedFileIds == CandidateIds(thresholded)
           unassignedFiles == SelectSeq(files, LAMBDA f : f.id \notin assignedFileIds)
       IN IF unassignedFiles # << >> /\ Len(thresholded) = 0
            THEN [threw |-> TRUE,
                  error |-> "Cannot read properties of undefined (reading 'candidates')",
                  clusters |-> << >>]
            ELSE [threw |-> FALSE, error |-> "",
                  clusters |-> assignUnassignedFiles(unassignedFiles, thresholded, domainEmbeddings)]

-----------------------------------------------------------------------------
(* topicAssigner: validateAssignmentResult                                 *)

CandidatePathSet(domainData) ==
  { domainData.candidates[i].path : i \in 1..Len(domainData.candidates) }

SubtopicTitleSet(domainData) ==
  { domainData.subtopics.subtopics[i].title : i \in 1..Len(domainData.subtopics.subtopics) }

AssignedPathSet(result) ==
  { result.assignments[i].filePath : i \in 1..Len(result.assignments) }

(* first loop: the first candidate path that is no filePath of the result   *)
RECURSIVE FirstUnassigned(_, _, _)
FirstUnassigned(cands, assignedPaths, i) ==
  IF i > Len(cands) THEN ""
  ELSE IF cands[i].path \notin assignedPaths
         THEN "File not assigned: " \o cands[i].path
         ELSE FirstUnassigned(cands, assignedPaths, i + 1)

RECURSIVE FirstInvalidSubtopic(_, _, _)
FirstInvalidSubtopic(subs, subtopicTitles, i) ==
  IF i > Len(subs) THEN ""
  ELSE IF subs[i] \notin subtopicTitles
         THEN "Invalid subtopic in assignment: " \o subs[i]
         ELSE FirstInvalidSubtopic(subs, subtopicTitles, i + 1)

(* variant: without the check for at least one subtopic                     *)
CheckAssignmentAllowingNone(assignment, candidatePaths, subtopicTitles) ==
  IF assignment.filePath \notin candidatePaths
    THEN "Invalid file path in assignment: " \o assignment.filePath
  ELSE FirstInvalidSubtopic(assignment.subtopics, subtopicTitles, 1)

(* the checks made on one assignment of the second loop, in the code's order *)
CheckAssignment(assignment, candidatePaths, subtopicTitles) ==
  IF assignment.filePath \notin candidatePaths
    THEN "Invalid file path in assignment: " \o assignment.filePath
  ELSE IF FirstInvalidSubtopic(assignment.subtopics, subtopicTitles, 1) # ""
    THEN FirstInvalidSubtopic(assignment.subtopics, subtopicTitles, 1)
  ELSE IF Len(assignment.subtopics) = 0
    THEN "File must be assigned to at least one subtopic: " \o assignment.filePath
  ELSE ""

RECURSIVE FirstBadAssignment(_, _, _, _)
FirstBadAssignment(as, candidatePaths, subtopicTitles, i) ==
  IF i > Len(as) THEN ""
  ELSE IF CheckAssignment(as[i], candidatePaths, subtopicTitles) # ""
         THEN CheckAssignment(as[i], candidatePaths, subtopicTitles)
         ELSE FirstBadAssignment(as, candidatePaths, subtopicTitles, i + 1)

(* variant: without the check that all files are assigned                   *)
validateAssignmentResultNoCoverage(result, domainData) ==
  FirstBadAssignment(result.assignments, CandidatePathSet(domainData),
                     SubtopicTitleSet(domainData), 1)

(* validateAssignmentResult(result, domainData): "" when it returns, or the  *)
(* message of the error it throws                                           *)
validateAssignmentResult(result, domainData) ==
  LET candidatePaths == CandidatePathSet(domainData)
      subtopicTitles == SubtopicTitleSet(domainData)
      assignedPaths == AssignedPathSet(result)
      missing == FirstUnassigned(domainData.candidates, assignedPaths, 1)
  IN IF missing # "" THEN missing
     ELSE FirstBadAssignment(result.assignments, candidatePaths, subtopicTitles, 1)

-----------------------------------------------------------------------------
(* What the collaborators may answer                                       *)

MaxFiles == 2
MaxDomains == 2
MaxRuns == 1

Undefined == "undefined"

BuildFileVecs == { <<1, 0>>, <<-1, 0>> }
BuildDomainVecs == { <<1, 0>>, <<0, 1>> }

FileSeqs(n, vecs) ==
  { [i \in 1..n |-> [id |-> FileIdOf(i), path |-> FilePathOf(i), vec |-> v[i]]] :
      v \in [1..n -> vecs] }

DomainSeqs(n, vecs) ==
  { [i \in 1..n |-> [title |-> DomainTitleOf(i), vec |-> v[i]]] : v \in [1..n -> vecs] }

(* a parsed domain-discovery response; its cardinality is not checked by    *)
(* the code, so 0 domains is a possible answer                              *)
DiscoveryResponses ==
  { [rootDomain |-> [title |-> "R"], topLevelDomains |-> ds] :
      ds \in UNION { DomainSeqs(n, BuildDomainVecs) : n \in 0..MaxDomains } }

TitleSeqToStructure(ts) == [subtopics |-> [i \in 1..Len(ts) |-> [title |-> ts[i]]]]

(* a parsed subtopic response; a subtopic without title is representable    *)
(* (JSON.parse(...) as SubtopicStructure checks nothing)                    *)
SubtopicResponses ==
  { TitleSeqToStructure(ts) : ts \in { << >>, << "T1" >>, << "T1", "T2" >>, << "T1", Undefined >> } }

SeqsUpTo(S, n) == UNION { [1..k -> S] : k \in 0..n }

AssignmentResultsOver(paths, lists, maxLen) ==
  { [assignments |-> as] :
      as \in SeqsUpTo({ [filePath |-> q, subtopics |-> l] : q \in paths, l \in lists }, maxLen) }

-----------------------------------------------------------------------------
(* OntologyService: buildOntology                                          *)

(* variant: a fourth attempt                                                *)
assignMaxRetriesPlusOne == 3 + 1

discoverMaxRetries == 3
subtopicMaxRetries == 3
assignMaxRetries == 3

RECURSIVE Pow2(_)
Pow2(n) == IF n = 0 THEN 1 ELSE 2 * Pow2(n - 1)

(* Math.pow(2, attempt) * 1000 ms, in seconds                               *)
BackoffSeconds(a) == Pow2(a)

fileContexts(records) == [i \in 1..Len(records) |-> records[i]]

(* const fileIds = new Map(); for (file of fileRecords) fileIds.set(path, id) *)
FileIdMap(records) ==
  [q \in { records[i].path : i \in 1..Len(records) } |->
     LET last == CHOOSE i \in 1..Len(records) :
                   /\ records[i].path = q
                   /\ \A j \in 1..Len(records) : records[j].path = q => j <= i
     IN records[last].id]

(* variant: every domain is paired with the first subtopic structure        *)
DomainsWithFirstSubtopics(cls, structures) ==
  [i \in 1..Len(cls) |->
     [domain |-> cls[i].domain,
      candidates |-> [j \in 1..Len(cls[i].candidates) |-> [path |-> cls[i].candidates[j].path]],
      subtopics |-> structures[1]]]

(* clusters.map((cluster, index) => ({domain, candidates, subtopics: subtopicStructures[index]})) *)
DomainsWithSubtopics(cls, structures) ==
  [i \in 1..Len(cls) |->
     [domain |-> cls[i].domain,
      candidates |-> [j \in 1..Len(cls[i].candidates) |-> [path |-> cls[i].candidates[j].path]],
      subtopics |-> structures[i]]]

PhaseStart(log, phase, args) == Append(log, [ev |-> "start", phase |-> phase, data |-> args])
PhaseEnd(log, phase, result) == Append(log, [ev |-> "end", phase |-> phase, data |-> result])

ErrorPrefix == "Ontology extraction failed: "

(* variant: the caught error is rethrown as it is                           *)
BuildRethrowOutcome(m) == [threw |-> TRUE, error |-> m, cause |-> m]

(* catch (error) { throw new Error(`Ontology extraction failed: ${error.message}`) } *)
(* (cause keeps the caught error's own message)                              *)
BuildCatchOutcome(m) == [threw |-> TRUE, error |-> ErrorPrefix \o m, cause |-> m]

BuildCatch(m) ==
  /\ pc' = "failed"
  /\ outcome' = BuildCatchOutcome(m)
  /\ runs' = runs + 1

IdleTxn == [pos |-> "idle"]

(* variant: the ontology is cleared when buildOntology starts                *)
BuildStartClearing ==
  /\ pc \in { "idle", "done", "failed" }
  /\ runs < MaxRuns
  /\ pc' = "discover"
  /\ storeBefore' = store
  /\ store' = [topics |-> {}, links |-> {}]
  /\ llmCallCount' = 0
  /\ outcome' = NoValue
  /\ domains' = NoValue
  /\ clusters' = << >>
  /\ subtopicStructures' = << >>
  /\ assignments' = << >>
  /\ phaseLog' = PhaseStart(<< >>, "discover", fileContexts(fileRecords))
  /\ idx' = 0
  /\ attempt' = 1
  /\ lpc' = "call"
  /\ providerCalls' = 0
  /\ waits' = << >>
  /\ txn' = IdleTxn
  /\ UNCHANGED << fileRecords, runs >>

(* buildOntology is called: llmCallCount = 0 and phase 1 starts             *)
BuildStart ==
  /\ pc \in { "idle", "done", "failed" }
  /\ runs < MaxRuns
  /\ pc' = "discover"
  /\ storeBefore' = store
  /\ llmCallCount' = 0
  /\ outcome' = NoValue
  /\ domains' = NoValue
  /\ clusters' = << >>
  /\ subtopicStructures' = << >>
  /\ assignments' = << >>
  /\ phaseLog' = PhaseStart(<< >>, "discover", fileContexts(fileRecords))
  /\ idx' = 0
  /\ attempt' = 1
  /\ lpc' = "call"
  /\ providerCalls' = 0
  /\ waits' = << >>
  /\ txn' = IdleTxn
  /\ UNCHANGED << fileRecords, store, runs >>

(* rootDomains: an attempt whose request and parse succeed returns the      *)
(* parsed result; buildOntology counts one call and starts phase 2          *)
DiscoverCountedCalls(n) == n + 1

DiscoverReturns ==
  /\ pc = "discover" /\ lpc = "call"
  /\ \E r \in DiscoveryResponses :
       /\ domains' = r
       /\ phaseLog' = PhaseStart(PhaseEnd(phaseLog, "discover", r), "cluster",
                                 << fileContexts(fileRecords), r >>)
  /\ providerCalls' = providerCalls + 1
  /\ llmCallCount' = DiscoverCountedCalls(llmCallCount)
  /\ pc' = "cluster"
  /\ UNCHANGED << fileRecords, clusters, subtopicStructures, assignments, idx, attempt,
                  lpc, waits, outcome, store, storeBefore, txn, runs >>

(* the request or the parse of the answer throws: caught, logged, then the   *)
(* exponential backoff is awaited                                           *)
DiscoverAttemptFails ==
  /\ pc = "discover" /\ lpc = "call"
  /\ providerCalls' = providerCalls + 1
  /\ lpc' = "backoff"
  /\ UNCHANGED << pc, fileRecords, domains, clusters, subtopicStructures, assignments,
                  idx, attempt, waits, llmCallCount, outcome, phaseLog, store,
                  storeBefore, txn, runs >>

(* the backoff of the failed attempt has elapsed: next attempt, or, after    *)
(* the last one, the throw behind the loop                                  *)
DiscoverBackoff ==
  /\ pc = "discover" /\ lpc = "backoff"
  /\ waits' = Append(waits, BackoffSeconds(attempt))
  /\ IF attempt < discoverMaxRetries
       THEN /\ attempt' = attempt + 1
            /\ lpc' = "call"
            /\ UNCHANGED << pc, outcome, runs >>
       ELSE /\ BuildCatch("Unexpected error in domain discovery")
            /\ UNCHANGED << attempt, lpc >>
  /\ UNCHANGED << fileRecords, domains, clusters, subtopicStructures, assignments, idx,
                  providerCalls, llmCallCount, phaseLog, store, storeBefore, txn >>

(* phase 2: generateStructureForDomains with the embeddings the provider    *)
(* returned; on success phase 3 starts                                      *)
ClusterPhase ==
  /\ pc = "cluster"
  /\ LET r == generateStructureForDomains(fileRecords, domains)
     IN IF r.threw
          THEN /\ BuildCatch(r.error)
               /\ UNCHANGED << clusters, phaseLog, idx, lpc >>
          ELSE /\ clusters' = r.clusters
               /\ phaseLog' = PhaseStart(PhaseEnd(phaseLog, "cluster", r.clusters),
                                         "subtopic", r.clusters)
               /\ pc' = "subtopic"
               /\ idx' = 0
               /\ lpc' = "loop"
               /\ UNCHANGED << outcome, runs >>
  /\ UNCHANGED << fileRecords, domains, subtopicStructures, assignments, attempt,
                  providerCalls, waits, llmCallCount, store, storeBefore, txn >>

(* an embedding request of phase 2 throws                                   *)
ClusterEmbeddingFails ==
  /\ pc = "cluster"
  /\ Len(fileRecords) + Len(domains.topLevelDomains) > 0
  /\ BuildCatch("Embedding API error")
  /\ UNCHANGED << fileRecords, domains, clusters, subtopicStructures, assignments, idx,
                  attempt, lpc, providerCalls, waits, llmCallCount, phaseLog, store,
                  storeBefore, txn >>

-----------------------------------------------------------------------------
(* subtopicLabeler: generateSubtopicStructuresForAllDomains and the retry   *)
(* loop of generateSubtopicStructure                                        *)

SubtopicCountedCalls(n, doms) == n + Len(doms.topLevelDomains)

(* head of for (let i = 0; i < clusters.length; i++): the next domain's      *)
(* generateSubtopicStructure starts, or the results are returned and         *)
(* buildOntology counts the calls and starts phase 4                        *)
SubtopicLoop ==
  /\ pc = "subtopic" /\ lpc = "loop"
  /\ IF idx < Len(clusters)
       THEN /\ lpc' = "call"
            /\ attempt' = 1
            /\ providerCalls' = 0
            /\ waits' = << >>
            /\ UNCHANGED << pc, idx, llmCallCount, phaseLog >>
       ELSE /\ llmCallCount' = SubtopicCountedCalls(llmCallCount, domains)
            /\ phaseLog' = PhaseStart(PhaseEnd(phaseLog, "subtopic", subtopicStructures),
                                      "assign", DomainsWithSubtopics(clusters, subtopicStructures))
            /\ pc' = "assign"
            /\ idx' = 0
            /\ UNCHANGED << lpc, attempt, providerCalls, waits >>
  /\ UNCHANGED << fileRecords, domains, clusters, subtopicStructures, assignments,
                  outcome, store, storeBefore, txn, runs >>

(* variant: the next domain starts as soon as the result is there            *)
SubtopicReturnsNoPause ==
  /\ pc = "subtopic" /\ lpc = "call"
  /\ \E r \in SubtopicResponses : subtopicStructures' = Append(subtopicStructures, r)
  /\ providerCalls' = providerCalls + 1
  /\ lpc' = "loop" /\ idx' = idx + 1
  /\ UNCHANGED << pc, fileRecords, domains, clusters, assignments, attempt, waits,
                  llmCallCount, outcome, phaseLog, store, storeBefore, txn, runs >>

(* an attempt succeeds: results.push(structure); a 500 ms pause follows      *)
(* unless this was the last domain                                          *)
SubtopicReturns ==
  /\ pc = "subtopic" /\ lpc = "call"
  /\ \E r \in SubtopicResponses : subtopicStructures' = Append(subtopicStructures, r)
  /\ providerCalls' = providerCalls + 1
  /\ IF idx < Len(clusters) - 1
       THEN lpc' = "pause" /\ idx' = idx
       ELSE lpc' = "loop" /\ idx' = idx + 1
  /\ UNCHANGED << pc, fileRecords, domains, clusters, assignments, attempt, waits,
                  llmCallCount, outcome, phaseLog, store, storeBefore, txn, runs >>

SubtopicAttemptFails ==
  /\ pc = "subtopic" /\ lpc = "call"
  /\ providerCalls' = providerCalls + 1
  /\ lpc' = "backoff"
  /\ UNCHANGED << pc, fileRecords, domains, clusters, subtopicStructures, assignments,
                  idx, attempt, waits, llmCallCount, outcome, phaseLog, store,
                  storeBefore, txn, runs >>

SubtopicBackoff ==
  /\ pc = "subtopic" /\ lpc = "backoff"
  /\ waits' = Append(waits, BackoffSeconds(attempt))
  /\ IF attempt < subtopicMaxRetries
       THEN /\ attempt' = attempt + 1
            /\ lpc' = "call"
            /\ UNCHANGED << pc, outcome, runs >>
       ELSE /\ BuildCatch("Unexpected error in subtopic generation")
            /\ UNCHANGED << attempt, lpc >>
  /\ UNCHANGED << fileRecords, domains, clusters, subtopicStructures, assignments, idx,
                  providerCalls, llmCallCount, phaseLog, store, storeBefore, txn >>

(* the 500 ms between two domains have elapsed                              *)
SubtopicPause ==
  /\ pc = "subtopic" /\ lpc = "pause"
  /\ idx' = idx + 1
  /\ lpc' = "loop"
  /\ UNCHANGED << pc, fileRecords, domains, clusters, subtopicStructures, assignments,
                  attempt, providerCalls, waits, llmCallCount, outcome, phaseLog, store,
                  storeBefore, txn, runs >>

-----------------------------------------------------------------------------
(* topicAssigner: assignFilesForAllDomains and the retry loop of            *)
(* assignFilesToSubtopics                                                   *)

MaxAssignLen == 2

(* a parsed assignment response: any list of up to MaxAssignLen assignments  *)
(* over the known paths and titles, an unknown path and an unknown title     *)
AssignmentResponses ==
  AssignmentResultsOver({ FilePathOf(i) : i \in 1..MaxFiles } \cup { "px" },
                        { << >>, << "T1" >>, << "T1", "T2" >>, << "Tx" >> },
                        MaxAssignLen)

(* variant: the assignment calls are counted once for the phase             *)
AssignCountedOnce(n, doms) == n + 1

AssignCountedCalls(n, doms) == n + Len(doms.topLevelDomains)

CurrentDomainData == DomainsWithSubtopics(clusters, subtopicStructures)[idx + 1]

AssignFailureMessage(domainData) ==
  "Failed to assign files for domain \"" \o domainData.domain.title \o "\" after "
    \o ToString(assignMaxRetries) \o " attempts"

(* persistOntologyToDatabase(cacheDir, domains, subtopicStructures,          *)
(* assignments, fileIds) is entered: its arguments and locals               *)
OpenTxn(doms, structures, asgs, fileIds) ==
  [pos |-> "open",
   args |-> [domains |-> doms, subtopicStructures |-> structures,
             assignments |-> asgs, fileIds |-> fileIds],
   backup |-> NoValue, rootTopicId |-> "", topLevelTopicIds |-> << >>,
   subtopicTopicIds |-> << >>, map |-> << >>, linkCount |-> 0,
   i |-> 0, j |-> 0, k |-> 0, result |-> NoValue, error |-> ""]

(* head of the loop over domainsWithSubtopics: the next domain's             *)
(* assignFilesToSubtopics starts, or the results are returned and            *)
(* buildOntology counts the calls, builds fileIds and starts phase 5         *)
AssignLoop ==
  /\ pc = "assign" /\ lpc = "loop"
  /\ IF idx < Len(clusters)
       THEN /\ lpc' = "call"
            /\ attempt' = 1
            /\ providerCalls' = 0
            /\ waits' = << >>
            /\ UNCHANGED << pc, idx, llmCallCount, phaseLog, txn >>
       ELSE /\ llmCallCount' = AssignCountedCalls(llmCallCount, domains)
            /\ phaseLog' = PhaseStart(PhaseEnd(phaseLog, "assign", assignments), "persist",
                                      << domains, subtopicStructures, assignments,
                                         FileIdMap(fileRecords) >>)
            /\ pc' = "persist"
            /\ txn' = OpenTxn(domains, subtopicStructures, assignments, FileIdMap(fileRecords))
            /\ UNCHANGED << idx, lpc, attempt, providerCalls, waits >>
  /\ UNCHANGED << fileRecords, domains, clusters, subtopicStructures, assignments,
                  outcome, store, storeBefore, runs >>

(* what the retry loop does with a parsed response: "" to return it          *)
AssignResponseCheck(r, domainData) == validateAssignmentResult(r, domainData)

(* an attempt whose response passes validateAssignmentResult is returned     *)
AssignReturns ==
  /\ pc = "assign" /\ lpc = "call"
  /\ \E r \in AssignmentResponses :
       /\ AssignResponseCheck(r, CurrentDomainData) = ""
       /\ assignments' = Append(assignments, r)
  /\ providerCalls' = providerCalls + 1
  /\ IF idx < Len(clusters) - 1
       THEN lpc' = "pause" /\ idx' = idx
       ELSE lpc' = "loop" /\ idx' = idx + 1
  /\ UNCHANGED << pc, fileRecords, domains, clusters, subtopicStructures, attempt, waits,
                  llmCallCount, outcome, phaseLog, store, storeBefore, txn, runs >>

(* the request, the parse or the validation throws: after the last attempt   *)
(* the named error is thrown, otherwise the backoff is awaited              *)
AssignAttemptFails ==
  /\ pc = "assign" /\ lpc = "call"
  /\ \/ TRUE
     \/ { r \in AssignmentResponses : AssignResponseCheck(r, CurrentDomainData) # "" } # {}
  /\ providerCalls' = providerCalls + 1
  /\ IF attempt = assignMaxRetries
       THEN /\ BuildCatch(AssignFailureMessage(CurrentDomainData))
            /\ UNCHANGED lpc
       ELSE /\ lpc' = "backoff"
            /\ UNCHANGED << pc, outcome, runs >>
  /\ UNCHANGED << fileRecords, domains, clusters, subtopicStructures, assignments, idx,
                  attempt, waits, llmCallCount, phaseLog, store, storeBefore, txn >>

AssignBackoff ==
  /\ pc = "assign" /\ lpc = "backoff"
  /\ waits' = Append(waits, BackoffSeconds(attempt))
  /\ attempt' = attempt + 1
  /\ lpc' = "call"
  /\ UNCHANGED << pc, fileRecords, domains, clusters, subtopicStructures, assignments,
                  idx, providerCalls, llmCallCount, outcome, phaseLog, store,
                  storeBefore, txn, runs >>

AssignPause ==
  /\ pc = "assign" /\ lpc = "pause"
  /\ idx' = idx + 1
  /\ lpc' = "loop"
  /\ UNCHANGED << pc, fileRecords, domains, clusters, subtopicStructures, assignments,
                  attempt, providerCalls, waits, llmCallCount, outcome, phaseLog, store,
                  storeBefore, txn, runs >>

-----------------------------------------------------------------------------
(* databaseOperations: the two tables and their constraints                *)

NullId == "null"

EmptyStore == [topics |-> {}, links |-> {}]

TopicIds(st) == { t.id : t \in st.topics }

(* INSERT INTO topics: "" when the row is stored, or the constraint that     *)
(* fails (id PRIMARY KEY, title NOT NULL, parent_id REFERENCES topics(id)).  *)
(* description is NOT NULL as well; a missing title stands for either.       *)
TopicInsertError(st, row) ==
  IF row.title = Undefined THEN "NOT NULL constraint failed: topics.title"
  ELSE IF row.id \in TopicIds(st) THEN "UNIQUE constraint failed: topics.id"
  ELSE IF row.parentId # NullId /\ row.parentId \notin TopicIds(st)
    THEN "FOREIGN KEY constraint failed"
  ELSE ""

InsertTopic(st, row) == [st EXCEPT !.topics = @ \cup { row }]

(* variant: the table without its uniqueness constraints                     *)
LinkInsertErrorForeignKeyOnly(st, row) ==
  IF row.topicId \notin TopicIds(st) THEN "FOREIGN KEY constraint failed" ELSE ""

(* INSERT INTO topic_node_links: id PRIMARY KEY, topic_id REFERENCES         *)
(* topics(id), UNIQUE(topic_id, node_id, node_type)                          *)
LinkInsertError(st, row) ==
  IF \E l \in st.links : l.id = row.id
    THEN "UNIQUE constraint failed: topic_node_links.id"
  ELSE IF \E l \in st.links :
            l.topicId = row.topicId /\ l.nodeId = row.nodeId /\ l.nodeType = row.nodeType
    THEN "UNIQUE constraint failed: topic_node_links.topic_id, topic_node_links.node_id, topic_node_links.node_type"
  ELSE IF row.topicId \notin TopicIds(st) THEN "FOREIGN KEY constraint failed"
  ELSE ""

InsertLink(st, row) == [st EXCEPT !.links = @ \cup { row }]

(* DELETE FROM topics with foreign_keys = ON fails while a link refers to a  *)
(* topic                                                                    *)
DeleteTopicsError(st) ==
  IF \E l \in st.links : l.topicId \in TopicIds(st)
    THEN "FOREIGN KEY constraint failed" ELSE ""

-----------------------------------------------------------------------------
(* databaseOperations: rows and results of persistOntologyToDatabase        *)

RootTopicId == "root"

NewRootTopic(rootDomain) ==
  [id |-> RootTopicId, title |-> rootDomain.title, parentId |-> NullId,
   depth |-> 0, isRoot |-> TRUE]

(* variant: top-level topic ids numbered from 0                              *)
TopLevelTopicIdZeroBased(i) == "domain-" \o ToString(i)

TopLevelTopicId(i) == "domain-" \o ToString(i + 1)

NewTopLevelTopic(domain, i, rootTopicId) ==
  [id |-> TopLevelTopicId(i), title |-> domain.title, parentId |-> rootTopicId,
   depth |-> 1, isRoot |-> FALSE]

(* const parentTopicId = topLevelTopicIds[domainIndex]                       *)
ParentTopicId(topLevelTopicIds, domainIndex) ==
  IF domainIndex < Len(topLevelTopicIds) THEN topLevelTopicIds[domainIndex + 1] ELSE Undefined

(* variant: ids drawn anew in every run                                      *)
SubtopicTopicIdPerRun(parentTopicId, subtopicIndex) ==
  parentTopicId \o "-sub-" \o ToString(subtopicIndex + 1) \o "-" \o ToString(runs)

SubtopicTopicId(parentTopicId, subtopicIndex) ==
  parentTopicId \o "-sub-" \o ToString(subtopicIndex + 1)

(* variant: a subtopic is stored as a child of the root                      *)
NewSubtopicTopicUnderRoot(subtopic, parentTopicId, subtopicIndex) ==
  [id |-> SubtopicTopicId(parentTopicId, subtopicIndex), title |-> subtopic.title,
   parentId |-> RootTopicId, depth |-> 2, isRoot |-> FALSE]

NewSubtopicTopic(subtopic, parentTopicId, subtopicIndex) ==
  [id |-> SubtopicTopicId(parentTopicId, subtopicIndex), title |-> subtopic.title,
   parentId |-> IF parentTopicId = Undefined THEN NullId ELSE parentTopicId,
   depth |-> 2, isRoot |-> FALSE]

NewLink(topicId, fileId) ==
  [id |-> "link-" \o topicId \o "-" \o fileId, topicId |-> topicId, nodeId |-> fileId,
   nodeType |-> "file", confidence |-> 100]

(* createSubtopicTitleMapping: mapping.set(topic.title, topic.id) over the   *)
(* rows SELECT ... WHERE id IN (subtopicTopicIds) returns.  The statement    *)
(* has no ORDER BY, so of several subtopics with one title any may come      *)
(* last: every such mapping is possible.                                     *)
SubtopicTitleMappings(st, subtopicTopicIds) ==
  LET rows == { t \in st.topics : \E i \in 1..Len(subtopicTopicIds) : subtopicTopicIds[i] = t.id }
      titles == { t.title : t \in rows }
  IN { m \in [titles -> { t.id : t \in rows }] :
         \A ti \in titles : \E t \in rows : t.title = ti /\ t.id = m[ti] }

(* variant: the quotient without the cap                                     *)
calculateCoverageUncapped(linkCount, totalFiles) ==
  IF totalFiles = 0 THEN 100
  ELSE (200 * linkCount + totalFiles) \div (2 * totalFiles)

(* Math.min(100, Math.round((linkCount / totalFiles) * 100)); Math.round     *)
(* rounds a half up                                                          *)
calculateCoverage(linkCount, totalFiles) ==
  IF totalFiles = 0 THEN 100
  ELSE LET rounded == (200 * linkCount + totalFiles) \div (2 * totalFiles)
       IN IF rounded < 100 THEN rounded ELSE 100

FileCount(fileIds) == Cardinality(DOMAIN fileIds)

(* variant: the root is left out of topicCount                               *)
PersistenceResultWithoutRoot(t) ==
  [rootTopicId |-> t.rootTopicId,
   topicCount |-> Len(t.topLevelTopicIds) + Len(t.subtopicTopicIds),
   linkCount |-> t.linkCount,
   coveragePercentage |-> calculateCoverage(t.linkCount, FileCount(t.args.fileIds))]

PersistenceResult(t) ==
  [rootTopicId |-> t.rootTopicId,
   topicCount |-> 1 + Len(t.topLevelTopicIds) + Len(t.subtopicTopicIds),
   linkCount |-> t.linkCount,
   coveragePercentage |-> calculateCoverage(t.linkCount, FileCount(t.args.fileIds))]

PersistErrorPrefix == "Failed to persist ontology: "

-----------------------------------------------------------------------------
(* databaseOperations: persistOntologyToDatabase, statement by statement    *)

InTransaction ==
  txn.pos \in { "clearLinks", "clearTopics", "insertRoot", "insertDomains",
                "insertSubtopics", "buildMap", "insertLinks", "commit" }

(* variant: no rollback, the rows written so far stay                        *)
RolledBackStoreKeepingWrites(t, st) == st

(* sqlite.transaction(fn)() rolls the transaction back when fn throws: the   *)
(* rows are those of BEGIN again                                            *)
RolledBackStore(t, st) == t.backup

(* a statement inside the transaction throws m: rollback, close, rethrow     *)
PersistThrow(m) ==
  /\ store' = RolledBackStore(txn, store)
  /\ txn' = [txn EXCEPT !.pos = "threw", !.error = PersistErrorPrefix \o m]

(* new Database, initializeOntologyDatabase (CREATE TABLE IF NOT EXISTS,     *)
(* foreign_keys = ON), BEGIN                                                *)
PersistBegin ==
  /\ txn.pos = "open"
  /\ txn' = [txn EXCEPT !.pos = "clearLinks", !.backup = store]
  /\ UNCHANGED << pc, fileRecords, domains, clusters, subtopicStructures, assignments,
                  idx, attempt, lpc, providerCalls, waits, llmCallCount, outcome,
                  phaseLog, store, storeBefore, runs >>

(* variant: the links are left in place                                      *)
PersistClearLinksSkipped ==
  /\ txn.pos = "clearLinks"
  /\ txn' = [txn EXCEPT !.pos = "clearTopics"]
  /\ UNCHANGED << pc, fileRecords, domains, clusters, subtopicStructures, assignments,
                  idx, attempt, lpc, providerCalls, waits, llmCallCount, outcome,
                  phaseLog, store, storeBefore, runs >>

(* clearExistingOntology: db.delete(topicNodeLinks).run()                    *)
PersistClearLinks ==
  /\ txn.pos = "clearLinks"
  /\ store' = [store EXCEPT !.links = {}]
  /\ txn' = [txn EXCEPT !.pos = "clearTopics"]
  /\ UNCHANGED << pc, fileRecords, domains, clusters, subtopicStructures, assignments,
                  idx, attempt, lpc, providerCalls, waits, llmCallCount, outcome,
                  phaseLog, storeBefore, runs >>

(* clearExistingOntology: db.delete(topics).run()                            *)
PersistClearTopics ==
  /\ txn.pos = "clearTopics"
  /\ IF DeleteTopicsError(store) # ""
       THEN PersistThrow(DeleteTopicsError(store))
       ELSE /\ store' = [store EXCEPT !.topics = {}]
            /\ txn' = [txn EXCEPT !.pos = "insertRoot"]
  /\ UNCHANGED << pc, fileRecords, domains, clusters, subtopicStructures, assignments,
                  idx, attempt, lpc, providerCalls, waits, llmCallCount, outcome,
                  phaseLog, storeBefore, runs >>

(* insertRootDomain                                                          *)
PersistInsertRoot ==
  /\ txn.pos = "insertRoot"
  /\ LET row == NewRootTopic(txn.args.domains.rootDomain)
     IN IF TopicInsertError(store, row) # ""
          THEN PersistThrow(TopicInsertError(store, row))
          ELSE /\ store' = InsertTopic(store, row)
               /\ txn' = [txn EXCEPT !.pos = "insertDomains", !.rootTopicId = row.id, !.i = 0]
  /\ UNCHANGED << pc, fileRecords, domains, clusters, subtopicStructures, assignments,
                  idx, attempt, lpc, providerCalls, waits, llmCallCount, outcome,
                  phaseLog, storeBefore, runs >>

(* insertTopLevelDomains: one turn of its loop, or its return                *)
PersistInsertDomain ==
  /\ txn.pos = "insertDomains"
  /\ LET topLevelDomains == txn.args.domains.topLevelDomains
     IN IF txn.i < Len(topLevelDomains)
          THEN LET row == NewTopLevelTopic(topLevelDomains[txn.i + 1], txn.i, txn.rootTopicId)
               IN IF TopicInsertError(store, row) # ""
                    THEN PersistThrow(TopicInsertError(store, row))
                    ELSE /\ store' = InsertTopic(store, row)
                         /\ txn' = [txn EXCEPT !.topLevelTopicIds = Append(@, row.id),
                                               !.i = @ + 1]
          ELSE /\ txn' = [txn EXCEPT !.pos = "insertSubtopics", !.i = 0, !.j = 0]
               /\ UNCHANGED store
  /\ UNCHANGED << pc, fileRecords, domains, clusters, subtopicStructures, assignments,
                  idx, attempt, lpc, providerCalls, waits, llmCallCount, outcome,
                  phaseLog, storeBefore, runs >>

(* insertSubtopics: one turn of the inner loop, the end of an inner loop, or *)
(* its return                                                                *)
PersistInsertSubtopic ==
  /\ txn.pos = "insertSubtopics"
  /\ LET structures == txn.args.subtopicStructures
     IN IF txn.i >= Len(structures)
          THEN /\ txn' = [txn EXCEPT !.pos = "buildMap"]
               /\ UNCHANGED store
          ELSE LET structure == structures[txn.i + 1]
                   parentTopicId == ParentTopicId(txn.topLevelTopicIds, txn.i)
               IN IF txn.j >= Len(structure.subtopics)
                    THEN /\ txn' = [txn EXCEPT !.i = @ + 1, !.j = 0]
                         /\ UNCHANGED store
                    ELSE LET row == NewSubtopicTopic(structure.subtopics[txn.j + 1],
                                                     parentTopicId, txn.j)
                         IN IF TopicInsertError(store, row) # ""
                              THEN PersistThrow(TopicInsertError(store, row))
                              ELSE /\ store' = InsertTopic(store, row)
                                   /\ txn' = [txn EXCEPT !.subtopicTopicIds = Append(@, row.id),
                                                         !.j = @ + 1]
  /\ UNCHANGED << pc, fileRecords, domains, clusters, subtopicStructures, assignments,
                  idx, attempt, lpc, providerCalls, waits, llmCallCount, outcome,
                  phaseLog, storeBefore, runs >>

(* insertTopicNodeLinks: linkCount = 0 and createSubtopicTitleMapping        *)
(* inArray(topics.id, []) throws in some releases of the query builder and  *)
(* selects nothing in others: with no subtopic ids both are possible         *)
PersistBuildMap ==
  /\ txn.pos = "buildMap"
  /\ \/ /\ \E m \in SubtopicTitleMappings(store, txn.subtopicTopicIds) :
            txn' = [txn EXCEPT !.pos = "insertLinks", !.map = m, !.linkCount = 0,
                               !.i = 0, !.j = 0, !.k = 0]
        /\ UNCHANGED store
     \/ /\ txn.subtopicTopicIds = << >>
        /\ PersistThrow("inArray requires at least one value")
  /\ UNCHANGED << pc, fileRecords, domains, clusters, subtopicStructures, assignments,
                  idx, attempt, lpc, providerCalls, waits, llmCallCount, outcome,
                  phaseLog, storeBefore, runs >>

(* fileIds.get(path) is falsy: no entry, or an empty id                      *)
FileIdMissing(fileIds, path) == path \notin DOMAIN fileIds \/ fileIds[path] = ""

(* insertTopicNodeLinks: one turn of its innermost loop (an insert that      *)
(* throws is caught and only skips the link), the end of a loop, or its      *)
(* return                                                                    *)
PersistInsertLink ==
  /\ txn.pos = "insertLinks"
  /\ LET asgs == txn.args.assignments
     IN IF txn.i >= Len(asgs)
          THEN /\ txn' = [txn EXCEPT !.pos = "commit"]
               /\ UNCHANGED store
          ELSE IF txn.j >= Len(asgs[txn.i + 1].assignments)
          THEN /\ txn' = [txn EXCEPT !.i = @ + 1, !.j = 0, !.k = 0]
               /\ UNCHANGED store
          ELSE LET assignment == asgs[txn.i + 1].assignments[txn.j + 1]
               IN IF \/ FileIdMissing(txn.args.fileIds, assignment.filePath)
                     \/ txn.k >= Len(assignment.subtopics)
                    THEN /\ txn' = [txn EXCEPT !.j = @ + 1, !.k = 0]
                         /\ UNCHANGED store
                    ELSE LET subtopicTitle == assignment.subtopics[txn.k + 1]
                         IN IF subtopicTitle \notin DOMAIN txn.map
                              THEN /\ txn' = [txn EXCEPT !.k = @ + 1]
                                   /\ UNCHANGED store
                              ELSE LET row == NewLink(txn.map[subtopicTitle],
                                                      txn.args.fileIds[assignment.filePath])
                                   IN IF LinkInsertError(store, row) = ""
                                        THEN /\ store' = InsertLink(store, row)
                                             /\ txn' = [txn EXCEPT !.linkCount = @ + 1,
                                                                   !.k = @ + 1]
                                        ELSE /\ txn' = [txn EXCEPT !.k = @ + 1]
                                             /\ UNCHANGED store
  /\ UNCHANGED << pc, fileRecords, domains, clusters, subtopicStructures, assignments,
                  idx, attempt, lpc, providerCalls, waits, llmCallCount, outcome,
                  phaseLog, storeBefore, runs >>

(* the transaction function returns its result: COMMIT, close, return        *)
PersistCommit ==
  /\ txn.pos = "commit"
  /\ txn' = [txn EXCEPT !.pos = "returned", !.result = PersistenceResult(txn)]
  /\ UNCHANGED << pc, fileRecords, domains, clusters, subtopicStructures, assignments,
                  idx, attempt, lpc, providerCalls, waits, llmCallCount, outcome,
                  phaseLog, store, storeBefore, runs >>

(* buildOntology: phase 5 returned, the result is returned                   *)
BuildReturns ==
  /\ pc = "persist" /\ txn.pos = "returned"
  /\ pc' = "done"
  /\ outcome' = [threw |-> FALSE, persistence |-> txn.result, llmCallCount |-> llmCallCount]
  /\ phaseLog' = PhaseEnd(phaseLog, "persist", txn.result)
  /\ runs' = runs + 1
  /\ UNCHANGED << fileRecords, domains, clusters, subtopicStructures, assignments, idx,
                  attempt, lpc, providerCalls, waits, llmCallCount, store, storeBefore, txn >>

(* buildOntology: phase 5 threw                                              *)
BuildPersistFails ==
  /\ pc = "persist" /\ txn.pos = "threw"
  /\ BuildCatch(txn.error)
  /\ UNCHANGED << fileRecords, domains, clusters, subtopicStructures, assignments, idx,
                  attempt, lpc, providerCalls, waits, llmCallCount, phaseLog, store,
                  storeBefore, txn >>

-----------------------------------------------------------------------------
(* The pipeline: buildOntology on a cache that is empty or holds the         *)
(* ontology of an earlier run                                               *)

(* an ontology an earlier run persisted: one domain, one subtopic, one link  *)
EarlierStore ==
  [topics |-> { NewRootTopic([title |-> "R0"]),
                NewTopLevelTopic([title |-> "D0"], 0, RootTopicId),
                NewSubtopicTopic([title |-> "T0"], TopLevelTopicId(0), 0) },
   links |-> { NewLink(SubtopicTopicId(TopLevelTopicId(0), 0), FileIdOf(1)) }]

Init ==
  /\ pc = "idle"
  /\ fileRecords \in UNION { FileSeqs(n, BuildFileVecs) : n \in 0..MaxFiles }
  /\ domains = NoValue
  /\ clusters = << >>
  /\ subtopicStructures = << >>
  /\ assignments = << >>
  /\ idx = 0
  /\ attempt = 0
  /\ lpc = "none"
  /\ providerCalls = 0
  /\ waits = << >>
  /\ llmCallCount = 0
  /\ outcome = NoValue
  /\ phaseLog = << >>
  /\ store \in { EmptyStore, EarlierStore }
  /\ storeBefore = store
  /\ txn = IdleTxn
  /\ runs = 0

PersistStep ==
  \/ PersistBegin
  \/ PersistClearLinks
  \/ PersistClearTopics
  \/ PersistInsertRoot
  \/ PersistInsertDomain
  \/ PersistInsertSubtopic
  \/ PersistBuildMap
  \/ PersistInsertLink
  \/ PersistCommit

Next ==
  \/ BuildStart
  \/ DiscoverReturns
  \/ DiscoverAttemptFails
  \/ DiscoverBackoff
  \/ ClusterPhase
  \/ ClusterEmbeddingFails
  \/ SubtopicLoop
  \/ SubtopicReturns
  \/ SubtopicAttemptFails
  \/ SubtopicBackoff
  \/ SubtopicPause
  \/ AssignLoop
  \/ AssignReturns
  \/ AssignAttemptFails
  \/ AssignBackoff
  \/ AssignPause
  \/ PersistStep
  \/ BuildReturns
  \/ BuildPersistFails

Spec == Init /\ [][Next]_vars

-----------------------------------------------------------------------------
(* generateStructureForDomains alone, on any files and domains               *)

InitCluster ==
  /\ pc = "cluster"
  /\ fileRecords \in UNION { FileSeqs(n, Vecs) : n \in 0..ClMaxFiles }
  /\ domains \in { [rootDomain |-> [title |-> "R"], topLevelDomains |-> ds] :
                     ds \in UNION { DomainSeqs(n, Vecs) : n \in 0..ClMaxDomains } }
  /\ clusters = << >>
  /\ subtopicStructures = << >>
  /\ assignments = << >>
  /\ idx = 0
  /\ attempt = 0
  /\ lpc = "none"
  /\ providerCalls = 0
  /\ waits = << >>
  /\ llmCallCount = 0
  /\ outcome = NoValue
  /\ phaseLog = << >>
  /\ store = EmptyStore
  /\ storeBefore = EmptyStore
  /\ txn = IdleTxn
  /\ runs = 0

NextCluster == ClusterPhase \/ ClusterEmbeddingFails

SpecCluster == InitCluster /\ [][NextCluster]_vars

(* C1: whenever generateStructureForDomains returns, every input file id is  *)
(* a candidate of at least one returned cluster, and there is exactly one    *)
(* cluster per domain (cluster i carries domain i).                          *)
C1_ClusterCoverage ==
  pc = "subtopic" =>
    /\ \A i \in 1..Len(fileRecords) :
         \E c \in 1..Len(clusters) : \E j \in 1..Len(clusters[c].candidates) :
           clusters[c].candidates[j].id = fileRecords[i].id
    /\ Len(clusters) = Len(domains.topLevelDomains)
    /\ \A c \in 1..Len(clusters) : clusters[c].domain = domains.topLevelDomains[c]

(* it returned for two domains and a file that neither selects at the        *)
(* threshold                                                                 *)
C1_Witness ==
  /\ pc = "subtopic"
  /\ Len(clusters) = 2
  /\ \E i \in 1..Len(fileRecords) :
       \A c \in 1..2 :
         ~SimGEThreshold(cosineSimilarity(fileRecords[i].vec, domains.topLevelDomains[c].vec))

-----------------------------------------------------------------------------
(* properties of buildOntology                                              *)

PhaseOrder == << "discover", "cluster", "subtopic", "assign", "persist" >>

(* the phase most recently started in this call                             *)
LastStarted ==
  IF phaseLog = << >> THEN "none" ELSE PhaseOrder[(Len(phaseLog) + 1) \div 2]

(* C2: after a successful buildOntology (file ids and paths distinct) every  *)
(* input file has at least one topic_node_links row whose node_id is its id. *)
C2_EveryFileLinked ==
  pc = "done" =>
    \A i \in 1..Len(fileRecords) :
      \E l \in store.links : l.nodeId = fileRecords[i].id

(* a run over two files and two domains succeeded                           *)
C2_Witness ==
  /\ pc = "done"
  /\ Len(fileRecords) = 2
  /\ Len(domains.topLevelDomains) = 2
  /\ Cardinality(store.links) >= 2


LoopPhases == { "discover", "subtopic", "assign" }

(* a retry loop is between its first call and its return or throw           *)
LoopRunning == pc \in LoopPhases /\ lpc \in { "call", "backoff" }

(* buildOntology failed because a retry loop threw                          *)
LoopThrew == pc = "failed" /\ LastStarted \in LoopPhases

(* C4: each retry loop calls the provider at most 3 times per invocation;    *)
(* it throws only after the third failed attempt and then adds no result;    *)
(* a returned result is the answer of the one successful call (validated,    *)
(* for an assignment); the assignment error names the failing domain.        *)
C4_RetryLoops ==
  /\ providerCalls <= 3
  /\ LoopRunning => providerCalls = (IF lpc = "call" THEN attempt - 1 ELSE attempt)
  /\ LoopThrew =>
       /\ providerCalls = 3
       /\ outcome.threw
       /\ LastStarted = "discover" => domains = NoValue
       /\ LastStarted = "subtopic" => Len(subtopicStructures) = idx
       /\ LastStarted = "assign" =>
            /\ Len(assignments) = idx
            /\ outcome.cause = "Failed to assign files for domain \""
                                 \o clusters[idx + 1].domain.title \o "\" after 3 attempts"
  /\ (pc # "idle" /\ ~LoopRunning /\ ~LoopThrew) =>
       /\ providerCalls = Len(waits) + 1
       /\ \A i \in 1..Len(assignments) :
            validateAssignmentResult(assignments[i],
              [domain |-> clusters[i].domain,
               candidates |-> clusters[i].candidates,
               subtopics |-> subtopicStructures[i]]) = ""

(* the assignment loop of the second domain gave up after three calls        *)
C4_Witness ==
  /\ LoopThrew
  /\ LastStarted = "assign"
  /\ idx = 1
  /\ providerCalls = 3

(* C5: the five phases run in the order discover, cluster, subtopic, assign, *)
(* persist; each starts exactly once, only when the one before it returned,  *)
(* and is given what the earlier phases returned.                            *)
C5_PhaseOrder ==
  /\ Len(phaseLog) <= 10
  /\ \A k \in 1..Len(phaseLog) :
       /\ phaseLog[k].phase = PhaseOrder[(k + 1) \div 2]
       /\ phaseLog[k].ev = (IF k % 2 = 1 THEN "start" ELSE "end")
  /\ pc \in { "discover", "cluster", "subtopic", "assign", "persist" } =>
       /\ Len(phaseLog) % 2 = 1
       /\ LastStarted = pc
  /\ pc = "done" => Len(phaseLog) = 10
  /\ Len(phaseLog) >= 1 => phaseLog[1].data = fileRecords
  /\ Len(phaseLog) >= 3 => phaseLog[3].data = << fileRecords, phaseLog[2].data >>
  /\ Len(phaseLog) >= 5 => phaseLog[5].data = phaseLog[4].data
  /\ Len(phaseLog) >= 7 =>
       /\ Len(phaseLog[7].data) = Len(phaseLog[4].data)
       /\ Len(phaseLog[6].data) = Len(phaseLog[4].data)
       /\ \A i \in 1..Len(phaseLog[7].data) :
            /\ phaseLog[7].data[i].domain = phaseLog[4].data[i].domain
            /\ phaseLog[7].data[i].subtopics = phaseLog[6].data[i]
            /\ Len(phaseLog[7].data[i].candidates) = Len(phaseLog[4].data[i].candidates)
            /\ \A j \in 1..Len(phaseLog[7].data[i].candidates) :
                 phaseLog[7].data[i].candidates[j].path = phaseLog[4].data[i].candidates[j].path
  /\ Len(phaseLog) >= 9 =>
       /\ phaseLog[9].data[1] = phaseLog[2].data
       /\ phaseLog[9].data[2] = phaseLog[6].data
       /\ phaseLog[9].data[3] = phaseLog[8].data
       /\ \A i \in 1..Len(fileRecords) :
            phaseLog[9].data[4][fileRecords[i].path] = fileRecords[i].id

(* persistence started for two domains whose subtopic structures differ      *)
C5_Witness ==
  /\ Len(phaseLog) >= 9
  /\ Len(phaseLog[6].data) = 2
  /\ phaseLog[6].data[1] # phaseLog[6].data[2]

(* C6: on success llmCallCount is 1 + 2 * D for D top-level domains,         *)
(* whatever the number of retried calls.                                     *)
C6_LlmCallCount ==
  pc = "done" =>
    /\ ~outcome.threw
    /\ outcome.llmCallCount = 1 + 2 * Len(domains.topLevelDomains)

(* a run over two domains succeeded although its last assignment was retried *)
C6_Witness ==
  /\ pc = "done"
  /\ Len(domains.topLevelDomains) = 2
  /\ Len(waits) >= 1

(* C7: when a phase throws an error with message m, buildOntology rejects    *)
(* with exactly "Ontology extraction failed: " followed by m, and returns    *)
(* nothing.                                                                  *)
C7_ErrorWrapping ==
  pc = "failed" =>
    /\ outcome.threw
    /\ outcome.error = "Ontology extraction failed: " \o outcome.cause
    /\ DOMAIN outcome = { "threw", "error", "cause" }
    /\ LastStarted = "persist" => outcome.cause = txn.error
    /\ LastStarted = "discover" => outcome.cause = "Unexpected error in domain discovery"
    /\ LastStarted = "subtopic" => outcome.cause = "Unexpected error in subtopic generation"
    /\ LastStarted = "assign" => outcome.cause = AssignFailureMessage(CurrentDomainData)
    /\ LastStarted = "cluster" =>
         outcome.cause \in { "Embedding API error", "Vectors must have the same length",
                             "Cannot read properties of undefined (reading 'candidates')" }

(* persistence threw and buildOntology rejected                             *)
C7_Witness ==
  /\ pc = "failed"
  /\ LastStarted = "persist"
  /\ txn.pos = "threw"

(* C8: while phases 1 to 4 run, and when one of them has failed,             *)
(* persistOntologyToDatabase has not been invoked and the store is as it     *)
(* was when buildOntology was called.                                        *)
C8_NoWriteBeforePersist ==
  (LastStarted \in { "discover", "cluster", "subtopic", "assign" }) =>
    /\ txn.pos = "idle"
    /\ store = storeBefore

(* a call on a populated store failed in the assignment phase               *)
C8_Witness ==
  /\ pc = "failed"
  /\ LastStarted = "assign"
  /\ store = EarlierStore

-----------------------------------------------------------------------------
(* assignFilesForAllDomains alone, entered with the clusters that            *)
(* generateStructureForDomains returns and any subtopic structures           *)

AssignFileVecs == { <<1, 0>>, <<4, 1>> }
AssignDomainVecs == { <<1, 0>>, <<0, 1>> }

InitAssign ==
  /\ pc = "assign"
  /\ fileRecords \in UNION { FileSeqs(n, AssignFileVecs) : n \in 0..MaxFiles }
  /\ domains \in { [rootDomain |-> [title |-> "R"], topLevelDomains |-> ds] :
                     ds \in UNION { DomainSeqs(n, AssignDomainVecs) : n \in 1..MaxDomains } }
  /\ ~generateStructureForDomains(fileRecords, domains).threw
  /\ clusters = generateStructureForDomains(fileRecords, domains).clusters
  /\ subtopicStructures \in [1..Len(domains.topLevelDomains) -> SubtopicResponses]
  /\ assignments = << >>
  /\ idx = 0
  /\ attempt = 0
  /\ lpc = "loop"
  /\ providerCalls = 0
  /\ waits = << >>
  /\ llmCallCount = SubtopicCountedCalls(DiscoverCountedCalls(0), domains)
  /\ outcome = NoValue
  /\ phaseLog = << >>
  /\ store = EmptyStore
  /\ storeBefore = EmptyStore
  /\ txn = IdleTxn
  /\ runs = 0

NextAssign ==
  \/ AssignLoop
  \/ AssignReturns
  \/ AssignAttemptFails
  \/ AssignBackoff
  \/ AssignPause

SpecAssign == InitAssign /\ [][NextAssign]_vars

(* conditions (a) to (d) of an acceptable assignment result                 *)
CoversCandidates(r, dd) ==
  \A c \in 1..Len(dd.candidates) :
    \E k \in 1..Len(r.assignments) : r.assignments[k].filePath = dd.candidates[c].path

OnlyCandidates(r, dd) ==
  \A k \in 1..Len(r.assignments) :
    \E c \in 1..Len(dd.candidates) : dd.candidates[c].path = r.assignments[k].filePath

OnlyGeneratedTitles(r, dd) ==
  \A k \in 1..Len(r.assignments) :
    \A s \in 1..Len(r.assignments[k].subtopics) :
      \E t \in 1..Len(dd.subtopics.subtopics) :
        dd.subtopics.subtopics[t].title = r.assignments[k].subtopics[s]

NoEmptyList(r, dd) ==
  \A k \in 1..Len(r.assignments) : Len(r.assignments[k].subtopics) >= 1

Acceptable(r, dd) ==
  /\ CoversCandidates(r, dd)
  /\ OnlyCandidates(r, dd)
  /\ OnlyGeneratedTitles(r, dd)
  /\ NoEmptyList(r, dd)

DomainDataAt(i) ==
  [domain |-> clusters[i].domain,
   candidates |-> clusters[i].candidates,
   subtopics |-> subtopicStructures[i]]

C3_State ==
  /\ (pc = "assign" /\ lpc = "call") =>
       \A r \in AssignmentResponses :
         (validateAssignmentResult(r, DomainDataAt(idx + 1)) = "")
           <=> Acceptable(r, DomainDataAt(idx + 1))
  /\ \A i \in 1..Len(assignments) :
       /\ Acceptable(assignments[i], DomainDataAt(i))
       /\ validateAssignmentResult(assignments[i], DomainDataAt(i)) = ""

C3_Step ==
  /\ clusters' = clusters
  /\ subtopicStructures' = subtopicStructures
  /\ Len(assignments') >= Len(assignments)
  /\ SubSeq(assignments', 1, Len(assignments)) = assignments
  /\ Len(assignments') > Len(assignments) =>
       /\ Len(assignments') = Len(assignments) + 1
       /\ assignments'[Len(assignments')] \in AssignmentResponses

(* C3: validateAssignmentResult accepts a result exactly when (a) every      *)
(* candidate path is a filePath of it, (b) every filePath is a candidate,    *)
(* (c) every subtopic title is a generated title and (d) no subtopic list is *)
(* empty; validating changes neither the domain data nor the result, and a   *)
(* result that assignFilesToSubtopics returned passes it again; no returned  *)
(* result violates (a) to (d).                                               *)
C3_ValidationExact == []C3_State /\ [][C3_Step]_vars

(* the second domain's result, giving a file two subtopics, was returned     *)
(* after a rejected attempt                                                  *)
C3_Witness ==
  /\ pc = "assign"
  /\ Len(assignments) = 2
  /\ Len(waits) >= 1
  /\ \E k \in 1..Len(assignments[2].assignments) :
       Len(assignments[2].assignments[k].subtopics) = 2

-----------------------------------------------------------------------------
(* persistOntologyToDatabase alone, called repeatedly with what the first    *)
(* four phases can hand over                                                 *)

PersistMaxRuns == 2

PersistFiles == CHOOSE fs \in FileSeqs(MaxFiles, { <<1, 0>> }) : TRUE

(* the files and, per domain, the candidate lists of a clustering           *)
PersistInputs ==
  { [files |-> << >>, candidates |-> << >>],
    [files |-> PersistFiles, candidates |-> << PersistFiles >>],
    [files |-> PersistFiles,
     candidates |-> << SubSeq(PersistFiles, 1, 1), SubSeq(PersistFiles, 2, MaxFiles) >>] }

PersistStructures ==
  { TitleSeqToStructure(ts) : ts \in { << "T1" >>, << "T1", "T2" >>, << "T1", Undefined >> } }

PersistAssignments ==
  AssignmentResultsOver({ FilePathOf(i) : i \in 1..MaxFiles },
                        { << "T1" >>, << "T1", "T2" >> }, MaxAssignLen)

PersistDomains(n) ==
  [rootDomain |-> [title |-> "R"],
   topLevelDomains |-> [i \in 1..n |-> [title |-> DomainTitleOf(i), vec |-> <<1, 0>>]]]

(* a call of persistOntologyToDatabase with validated assignments, one per   *)
(* domain; a result may name a candidate twice                               *)
PersistInvoke ==
  /\ txn.pos \in { "idle", "returned", "threw" }
  /\ runs < PersistMaxRuns
  /\ \E inp \in PersistInputs :
       LET n == Len(inp.candidates)
           doms == PersistDomains(n)
       IN \E structures \in [1..n -> PersistStructures], asgs \in [1..n -> PersistAssignments] :
            /\ \A i \in 1..n :
                 /\ Len(asgs[i].assignments) >= Len(inp.candidates[i])
                 /\ validateAssignmentResult(asgs[i],
                      [domain |-> doms.topLevelDomains[i], candidates |-> inp.candidates[i],
                       subtopics |-> structures[i]]) = ""
            /\ fileRecords' = inp.files
            /\ domains' = doms
            /\ clusters' = [i \in 1..n |->
                              [domain |-> doms.topLevelDomains[i],
                               candidates |-> inp.candidates[i],
                               similarity_threshold |-> << ThresholdNum, ThresholdDen >>]]
            /\ subtopicStructures' = structures
            /\ assignments' = asgs
            /\ txn' = OpenTxn(doms, structures, asgs, FileIdMap(inp.files))
  /\ storeBefore' = store
  /\ runs' = runs + 1
  /\ UNCHANGED << pc, idx, attempt, lpc, providerCalls, waits, llmCallCount, outcome,
                  phaseLog, store >>

InitPersist ==
  /\ pc = "persist"
  /\ fileRecords = << >>
  /\ domains = NoValue
  /\ clusters = << >>
  /\ subtopicStructures = << >>
  /\ assignments = << >>
  /\ idx = 0
  /\ attempt = 0
  /\ lpc = "none"
  /\ providerCalls = 0
  /\ waits = << >>
  /\ llmCallCount = 0
  /\ outcome = NoValue
  /\ phaseLog = << >>
  /\ store = EmptyStore
  /\ storeBefore = EmptyStore
  /\ txn = IdleTxn
  /\ runs = 0

NextPersist == PersistInvoke \/ PersistStep

SpecPersist == InitPersist /\ [][NextPersist]_vars


(* the topic rows a call with these arguments is to leave                    *)
RunTopics(args) ==
  { [id |-> "root", title |-> args.domains.rootDomain.title, parentId |-> NullId,
     depth |-> 0, isRoot |-> TRUE] }
  \cup { [id |-> "domain-" \o ToString(i), title |-> args.domains.topLevelDomains[i].title,
          parentId |-> "root", depth |-> 1, isRoot |-> FALSE] :
           i \in 1..Len(args.domains.topLevelDomains) }
  \cup UNION { { [id |-> "domain-" \o ToString(i) \o "-sub-" \o ToString(j),
                  title |-> args.subtopicStructures[i].subtopics[j].title,
                  parentId |-> "domain-" \o ToString(i), depth |-> 2, isRoot |-> FALSE] :
                   j \in 1..Len(args.subtopicStructures[i].subtopics) } :
               i \in 1..Len(args.subtopicStructures) }

(* the (file id, subtopic title) pairs the assignments ask for               *)
RunPairs(args) ==
  UNION { UNION { { << args.fileIds[args.assignments[i].assignments[k].filePath],
                       args.assignments[i].assignments[k].subtopics[s] >> :
                       s \in 1..Len(args.assignments[i].assignments[k].subtopics) } :
                  k \in 1..Len(args.assignments[i].assignments) } :
          i \in 1..Len(args.assignments) }

(* the links are those of the pairs: each link joins a file to a subtopic of *)
(* this run with an assigned title, and each pair has its link               *)
RunLinksOnly(st, args) ==
  /\ \A l \in st.links :
       \E t \in st.topics :
         /\ t.id = l.topicId /\ t.depth = 2
         /\ << l.nodeId, t.title >> \in RunPairs(args)
  /\ \A pr \in RunPairs(args) :
       \E l \in st.links : \E t \in st.topics :
         t.id = l.topicId /\ l.nodeId = pr[1] /\ t.title = pr[2]

(* C9: persistOntologyToDatabase is atomic: when it returns, the store holds *)
(* exactly the topics and links of this call and nothing of the store        *)
(* before; when a statement inside the transaction throws, the store is      *)
(* exactly the store before the call.                                        *)
C9_PersistAtomic ==
  /\ txn.pos = "returned" =>
       /\ store.topics = RunTopics(txn.args)
       /\ RunLinksOnly(store, txn.args)
  /\ txn.pos = "threw" => store = storeBefore

(* a call on a populated store threw after it had deleted the old rows and   *)
(* inserted new ones                                                         *)
C9_Witness ==
  /\ txn.pos = "threw"
  /\ storeBefore.topics # {}
  /\ Len(txn.subtopicTopicIds) >= 1
  /\ RunTopics(txn.args) # storeBefore.topics

HierarchyOK(st) ==
  /\ Cardinality({ t \in st.topics : t.isRoot }) = 1
  /\ \A t \in st.topics : t.isRoot => (t.depth = 0 /\ t.parentId = NullId)
  /\ \A t \in st.topics :
       ~t.isRoot => \E p \in st.topics : p.id = t.parentId /\ p.depth = t.depth - 1

(* C10: after any sequence of persists of which one succeeded, the store     *)
(* has exactly one isRoot topic, with depth 0 and no parent, and every other *)
(* topic's parent exists with a depth exactly one less.                      *)
C10_TopicHierarchy ==
  (~InTransaction /\ store # EmptyStore) => HierarchyOK(store)

(* the second of two successful calls returned, leaving subtopics            *)
C10_Witness ==
  /\ txn.pos = "returned"
  /\ runs = 2
  /\ storeBefore # EmptyStore
  /\ \E t \in store.topics : t.depth = 2


UniqueLinks(st) ==
  \A l1 \in st.links : \A l2 \in st.links :
    (l1.topicId = l2.topicId /\ l1.nodeId = l2.nodeId /\ l1.nodeType = l2.nodeType)
      => l1 = l2

(* C11: in every store state reached through persistOntologyToDatabase no    *)
(* two link rows share (topicId, nodeId, nodeType); a repeated (subtopic,    *)
(* file) pair does not abort the call (a call that threw inserted no link),  *)
(* adds no row and does not raise linkCount, which stays the number of rows. *)
C11_NoDuplicateLinks ==
  /\ UniqueLinks(store)
  /\ txn.pos \in { "insertLinks", "commit", "returned" } =>
       txn.linkCount = Cardinality(store.links)
  /\ txn.pos = "threw" => txn.linkCount = 0

(* a call whose assignments name the same file and subtopics twice returned  *)
C11_Witness ==
  /\ txn.pos = "returned"
  /\ txn.linkCount >= 1
  /\ \E i \in 1..Len(txn.args.assignments) :
       /\ Len(txn.args.assignments[i].assignments) = 2
       /\ txn.args.assignments[i].assignments[1] = txn.args.assignments[i].assignments[2]


(* C12: subtopic titles are resolved per domain: for every domain d and      *)
(* every file assigned title T in d's assignment result, a link joins the    *)
(* file to the subtopic titled T whose parent is d's topic, also when        *)
(* another domain has a subtopic titled T.                                   *)
C12_DomainScopedLinks ==
  txn.pos = "returned" =>
    \A i \in 1..Len(txn.args.assignments) :
      \A k \in 1..Len(txn.args.assignments[i].assignments) :
        \A s \in 1..Len(txn.args.assignments[i].assignments[k].subtopics) :
          \E l \in store.links : \E t \in store.topics :
            /\ l.nodeId = txn.args.fileIds[txn.args.assignments[i].assignments[k].filePath]
            /\ l.topicId = t.id
            /\ t.title = txn.args.assignments[i].assignments[k].subtopics[s]
            /\ t.parentId = "domain-" \o ToString(i)

-----------------------------------------------------------------------------
(* Functions called on their own: the function's name is in pc, the call    *)
(* (arguments and returned value) in outcome                                 *)

CallInit(fn) ==
  /\ pc = fn
  /\ fileRecords = << >>
  /\ domains = NoValue
  /\ clusters = << >>
  /\ subtopicStructures = << >>
  /\ assignments = << >>
  /\ idx = 0
  /\ attempt = 0
  /\ lpc = "none"
  /\ providerCalls = 0
  /\ waits = << >>
  /\ llmCallCount = 0
  /\ outcome = NoValue
  /\ phaseLog = << >>
  /\ store = EmptyStore
  /\ storeBefore = EmptyStore
  /\ txn = IdleTxn
  /\ runs = 0

Called(args, value) == [threw |-> FALSE, args |-> args, value |-> value]

-----------------------------------------------------------------------------
(* calculateCoverage(linkCount, totalFiles)                                  *)

CovMaxLinks == 12
CovMaxFiles == 8

CoverageCall ==
  /\ \E linkCount \in 0..CovMaxLinks, totalFiles \in 0..CovMaxFiles :
       outcome' = Called([linkCount |-> linkCount, totalFiles |-> totalFiles],
                         calculateCoverage(linkCount, totalFiles))
  /\ UNCHANGED << pc, fileRecords, domains, clusters, subtopicStructures, assignments,
                  idx, attempt, lpc, providerCalls, waits, llmCallCount, phaseLog,
                  store, storeBefore, txn, runs >>

InitCoverage == CallInit("calculateCoverage")

NextCoverage == CoverageCall

SpecCoverage == InitCoverage /\ [][NextCoverage]_vars

(* r is x = num / den rounded to the nearest integer, a half rounded up      *)
IsRoundOf(r, num, den) == 2 * r * den <= 2 * num + den /\ 2 * num + den < 2 * (r + 1) * den

(* C13: calculateCoverage returns min(100, round(linkCount / totalFiles *    *)
(* 100)) for totalFiles > 0 and 100 for totalFiles = 0; so 0 for no links    *)
(* over some files, 100 for as many links as files, and always an integer    *)
(* between 0 and 100.                                                        *)
C13_CoverageFormula ==
  outcome # NoValue =>
    LET l == outcome.args.linkCount
        t == outcome.args.totalFiles
        v == outcome.value
    IN /\ v \in 0..100
       /\ t = 0 => v = 100
       /\ t > 0 => \E r \in 0..(100 * CovMaxLinks) :
                     /\ IsRoundOf(r, 100 * l, t)
                     /\ v = IF r <= 100 THEN r ELSE 100
       /\ (l = 0 /\ t > 0) => v = 0
       /\ (l = t /\ t > 0) => v = 100

C13_Witness ==
  /\ outcome # NoValue
  /\ outcome.args.linkCount = 1
  /\ outcome.args.totalFiles = 8
  /\ outcome.value = 13

-----------------------------------------------------------------------------
(* the paths of the lookup whose file has no topic_node_links row            *)
UnlinkedPaths(fileIds, st) ==
  { p \in DOMAIN fileIds : ~ \E l \in st.links : l.nodeId = fileIds[p] }

-----------------------------------------------------------------------------
(* validateOntologyResults(result). avgIntraClusterSimilarity is held in     *)
(* thousandths, totalTime in milliseconds                                    *)

CoverageLimit == 100
TotalTimeLimit == 30 * 60 * 1000
LlmCallLimit == 100
SimilarityLimit == 100

(* Math.round(totalTime / 1000)                                              *)
RoundedSeconds(ms) == (2 * ms + 1000) \div 2000

(* x.toFixed(3) of x = m / 1000, m >= 0                                      *)
ToFixed3(m) ==
  LET frac == m % 1000
      pad == IF frac < 10 THEN "00" ELSE IF frac < 100 THEN "0" ELSE ""
  IN ToString(m \div 1000) \o "." \o pad \o ToString(frac)

CoverageIssue(result) ==
  "Coverage below 100%: " \o ToString(result.persistence.coveragePercentage) \o "%"

TimeIssue(result) ==
  "Total time exceeds 30 minutes: " \o ToString(RoundedSeconds(result.timing.totalTime)) \o "s"

LlmCallIssue(result) == "LLM calls exceed 100: " \o ToString(result.llmCallCount)

SimilarityIssue(result) ==
  "Low cluster similarity: " \o ToFixed3(result.quality.avgIntraClusterSimilarity)

(* variant: the checks as an else-if chain                                   *)
validateOntologyResultsFirstOnly(result) ==
  LET issues ==
        IF result.persistence.coveragePercentage < CoverageLimit
          THEN << CoverageIssue(result) >>
        ELSE IF result.timing.totalTime > TotalTimeLimit THEN << TimeIssue(result) >>
        ELSE IF result.llmCallCount > LlmCallLimit THEN << LlmCallIssue(result) >>
        ELSE IF result.quality.avgIntraClusterSimilarity < SimilarityLimit
          THEN << SimilarityIssue(result) >>
        ELSE << >>
  IN [passed |-> Len(issues) = 0, issues |-> issues]

validateOntologyResults(result) ==
  LET i1 == IF result.persistence.coveragePercentage < CoverageLimit
              THEN << CoverageIssue(result) >> ELSE << >>
      i2 == IF result.timing.totalTime > TotalTimeLimit
              THEN Append(i1, TimeIssue(result)) ELSE i1
      i3 == IF result.llmCallCount > LlmCallLimit
              THEN Append(i2, LlmCallIssue(result)) ELSE i2
      issues == IF result.quality.avgIntraClusterSimilarity < SimilarityLimit
                  THEN Append(i3, SimilarityIssue(result)) ELSE i3
  IN [passed |-> Len(issues) = 0, issues |-> issues]

(* build results around each limit                                           *)
ValCoverages == { 0, 80, 99, 100 }
ValTimes == { 0, TotalTimeLimit - 1, TotalTimeLimit, TotalTimeLimit + 1, 2 * TotalTimeLimit }
ValCallCounts == { 1, 99, 100, 101, 120 }
ValSimilarities == { 0, 50, 99, 100, 101, 1000 }

BuildResults ==
  { [persistence |-> [coveragePercentage |-> c], timing |-> [totalTime |-> t],
     llmCallCount |-> n, quality |-> [avgIntraClusterSimilarity |-> s]] :
      c \in ValCoverages, t \in ValTimes, n \in ValCallCounts, s \in ValSimilarities }

ValidateCall ==
  /\ \E result \in BuildResults :
       outcome' = Called(result, validateOntologyResults(result))
  /\ UNCHANGED << pc, fileRecords, domains, clusters, subtopicStructures, assignments,
                  idx, attempt, lpc, providerCalls, waits, llmCallCount, phaseLog,
                  store, storeBefore, txn, runs >>

InitValidate == CallInit("validateOntologyResults")

NextValidate == ValidateCall

SpecValidate == InitValidate /\ [][NextValidate]_vars

(* the rules a result violates, in the order they are checked                *)
ViolatedRules(result) ==
  LET flags == << result.persistence.coveragePercentage < 100,
                  result.timing.totalTime > 1800000,
                  result.llmCallCount > 100,
                  result.quality.avgIntraClusterSimilarity < 100 >>
  IN { k \in 1..4 : flags[k] }

IssuePrefixes ==
  << "Coverage below 100%: ", "Total time exceeds 30 minutes: ", "LLM calls exceed 100: ",
     "Low cluster similarity: " >>

HasPrefix(s, p) == Len(s) >= Len(p) /\ SubSeq(s, 1, Len(p)) = p

(* C15: validateOntologyResults returns one issue per violated rule among    *)
(* coverage < 100, totalTime > 30 minutes, llmCallCount > 100, similarity <  *)
(* 0.1, never stopping at the first; passed is true exactly when no rule is  *)
(* violated; a result at all four limits passes; coverage 80 with 120 calls  *)
(* and similarity 0.05 gives exactly 3 issues.                               *)
C15_ValidationRules ==
  outcome # NoValue =>
    LET result == outcome.args
        v == outcome.value
        rules == ViolatedRules(result)
    IN /\ Len(v.issues) = Cardinality(rules)
       /\ \A k \in rules : \E n \in 1..Len(v.issues) : HasPrefix(v.issues[n], IssuePrefixes[k])
       /\ v.passed <=> rules = { }
       /\ ( /\ result.persistence.coveragePercentage = 100
            /\ result.timing.totalTime = 1800000
            /\ result.llmCallCount = 100
            /\ result.quality.avgIntraClusterSimilarity = 100 ) => v.passed
       /\ ( /\ result.persistence.coveragePercentage = 80
            /\ result.timing.totalTime <= 1800000
            /\ result.llmCallCount = 120
            /\ result.quality.avgIntraClusterSimilarity = 50 ) =>
              /\ Len(v.issues) = 3
              /\ v.issues[1] = "Coverage below 100%: 80%"
              /\ v.issues[2] = "LLM calls exceed 100: 120"
              /\ v.issues[3] = "Low cluster similarity: 0.050"

C15_Witness ==
  /\ outcome # NoValue
  /\ outcome.args.persistence.coveragePercentage = 80
  /\ outcome.args.llmCallCount = 120
  /\ outcome.args.quality.avgIntraClusterSimilarity = 50
  /\ outcome.args.timing.totalTime = 0
  /\ Len(outcome.value.issues) = 3
  /\ ~ outcome.value.passed

-----------------------------------------------------------------------------
(* the subtopics of all structures of a call                                 *)
RECURSIVE SubtopicTotal(_)
SubtopicTotal(structures) ==
  IF structures = << >> THEN 0
  ELSE Len(structures[Len(structures)].subtopics)
         + SubtopicTotal(SubSeq(structures, 1, Len(structures) - 1))

(* C16: after a successful persistOntologyToDatabase the returned topicCount *)
(* is 1 + domainCount + subtopicCount and is the number of rows in topics    *)
(* (the generated ids are pairwise distinct), and the returned linkCount is  *)
(* the number of rows in topic_node_links.                                   *)
C16_CountsMatchRows ==
  txn.pos = "returned" =>
    /\ txn.result.topicCount =
         1 + Len(txn.args.domains.topLevelDomains) + SubtopicTotal(txn.args.subtopicStructures)
    /\ txn.result.topicCount = Cardinality(store.topics)
    /\ Cardinality({ t.id : t \in store.topics }) = Cardinality(store.topics)
    /\ txn.result.linkCount = Cardinality(store.links)

(* a call over two domains, three subtopics and a repeated assignment        *)
C16_Witness ==
  /\ txn.pos = "returned"
  /\ txn.result.topicCount = 6
  /\ txn.result.linkCount >= 2
  /\ runs = 2

-----------------------------------------------------------------------------
(* Rebuilds: persistOntologyToDatabase called again on the store it or an    *)
(* earlier run left; outcome keeps the last call that returned               *)

ReturnedCall(t, st) ==
  [threw |-> FALSE, args |-> t.args, map |-> t.map, persistence |-> t.result, store |-> st]

RebuildInvoke ==
  /\ txn.pos \in { "idle", "returned", "threw" }
  /\ runs < PersistMaxRuns
  /\ \E inp \in PersistInputs :
       LET n == Len(inp.candidates)
           doms == PersistDomains(n)
       IN \E structures \in [1..n -> PersistStructures], asgs \in [1..n -> PersistAssignments] :
            /\ \A i \in 1..n :
                 /\ Len(asgs[i].assignments) = Len(inp.candidates[i])
                 /\ validateAssignmentResult(asgs[i],
                      [domain |-> doms.topLevelDomains[i], candidates |-> inp.candidates[i],
                       subtopics |-> structures[i]]) = ""
            /\ fileRecords' = inp.files
            /\ domains' = doms
            /\ clusters' = [i \in 1..n |->
                              [domain |-> doms.topLevelDomains[i],
                               candidates |-> inp.candidates[i],
                               similarity_threshold |-> << ThresholdNum, ThresholdDen >>]]
            /\ subtopicStructures' = structures
            /\ assignments' = asgs
            /\ txn' = OpenTxn(doms, structures, asgs, FileIdMap(inp.files))
  /\ outcome' = IF txn.pos = "returned" THEN ReturnedCall(txn, store) ELSE outcome
  /\ storeBefore' = store
  /\ runs' = runs + 1
  /\ UNCHANGED << pc, idx, attempt, lpc, providerCalls, waits, llmCallCount, phaseLog, store >>

InitRebuild ==
  /\ runs = 0
  /\ pc = "persist"
  /\ fileRecords = << >>
  /\ domains = NoValue
  /\ clusters = << >>
  /\ subtopicStructures = << >>
  /\ assignments = << >>
  /\ idx = 0
  /\ attempt = 0
  /\ lpc = "none"
  /\ providerCalls = 0
  /\ waits = << >>
  /\ llmCallCount = 0
  /\ outcome = NoValue
  /\ phaseLog = << >>
  /\ store \in { EmptyStore, EarlierStore }
  /\ storeBefore = store
  /\ txn = IdleTxn

NextRebuild == RebuildInvoke \/ PersistStep

SpecRebuild == InitRebuild /\ [][NextRebuild]_vars

(* no title names two subtopics of the call, so the title lookup is fixed by *)
(* the inputs                                                                *)
TitlesDistinct(args) ==
  \A t1 \in RunTopics(args) : \A t2 \in RunTopics(args) :
    (t1.depth = 2 /\ t2.depth = 2 /\ t1.title = t2.title) => t1 = t2

(* the link of this call for a (file id, title) pair                         *)
RunLinks(args, map) ==
  { NewLink(map[pr[2]], pr[1]) : pr \in { q \in RunPairs(args) : q[2] \in DOMAIN map } }

C17_WitnessReplaced ==
  /\ txn.pos = "returned"
  /\ runs = 2
  /\ outcome # NoValue
  /\ outcome.args # txn.args
  /\ outcome.store.links \ store.links # { }

-----------------------------------------------------------------------------
(* C18: whenever discoverRootAndTopLevelDomains returns, its result has one  *)
(* root domain and between 2 and 10 top-level domains, and whenever          *)
(* generateSubtopicStructure returns, its result has between 2 and 10        *)
(* subtopics, whatever the provider answered.                                *)
C18_ResultCardinalities ==
  /\ domains # NoValue =>
       /\ "rootDomain" \in DOMAIN domains
       /\ Len(domains.topLevelDomains) \in 2..10
  /\ \A i \in 1..Len(subtopicStructures) :
       Len(subtopicStructures[i].subtopics) \in 2..10

-----------------------------------------------------------------------------
(* VectorStorageService: the embeddings table and saveEmbedding.  In this    *)
(* part store is the vector database: [embeddings |-> rows].  A component of *)
(* a Float32Array is a finite number, Infinity or NaN; a normalized vector   *)
(* is kept exactly, as its components and the square of the magnitude they   *)
(* were divided by.                                                          *)

EmbMaxSaves == 3

Fin(n) == [kind |-> "finite", val |-> n]
PosInf == [kind |-> "inf", val |-> 0]
NaN == [kind |-> "nan", val |-> 0]

EmbComponents == { Fin(0), Fin(3), Fin(4), PosInf }
EmbVectors == [1..2 -> EmbComponents]
EmbNodeIds == { "n1", "n2" }
EmbModels == { "m1", "m2" }

(* magnitude += vector[i] * vector[i], over the first k components: the sum  *)
(* of the squares, or Infinity                                               *)
RECURSIVE SumSquares(_, _)
SumSquares(vector, k) ==
  IF k = 0 THEN Fin(0)
  ELSE LET rest == SumSquares(vector, k - 1)
       IN IF rest.kind = "inf" \/ vector[k].kind = "inf" THEN PosInf
          ELSE Fin(rest.val + vector[k].val * vector[k].val)

(* vector[i] / magnitude for an infinite magnitude                           *)
DivideByInfinity(x) == IF x.kind = "finite" THEN Fin(0) ELSE NaN

(* variant: the components divided by the sum of squares, not by its root    *)
normalizeVectorNoRoot(vector) ==
  LET sumsq == SumSquares(vector, Len(vector))
  IN IF sumsq.kind = "inf"
       THEN [comps |-> [i \in 1..Len(vector) |-> DivideByInfinity(vector[i])], sq |-> 1]
     ELSE IF sumsq.val = 0 THEN [comps |-> vector, sq |-> 1]
     ELSE [comps |-> vector, sq |-> sumsq.val * sumsq.val]

(* normalizeVector: [comps, sq] stands for comps[i] / sqrt(sq)               *)
normalizeVector(vector) ==
  LET sumsq == SumSquares(vector, Len(vector))
  IN IF sumsq.kind = "inf"
       THEN [comps |-> [i \in 1..Len(vector) |-> DivideByInfinity(vector[i])], sq |-> 1]
     ELSE IF sumsq.val = 0 THEN [comps |-> vector, sq |-> 1]
     ELSE [comps |-> vector, sq |-> sumsq.val]

NewEmbedding(nodeId, vector, model) ==
  LET normalized == normalizeVector(vector)
  IN [id |-> nodeId, nodeId |-> nodeId, model |-> model, dim |-> Len(normalized.comps),
      vector |-> normalized]

(* insert(embeddings).values(embedding).onConflictDoUpdate({ target: id,     *)
(* set: { model, dim, vector } })                                            *)
UpsertEmbedding(rows, embedding) ==
  IF \E r \in rows : r.id = embedding.id
    THEN { IF r.id = embedding.id
             THEN [r EXCEPT !.model = embedding.model, !.dim = embedding.dim,
                            !.vector = embedding.vector]
             ELSE r : r \in rows }
    ELSE rows \cup { embedding }

saveEmbedding ==
  /\ runs < EmbMaxSaves
  /\ \E nodeId \in EmbNodeIds, vector \in EmbVectors, model \in EmbModels :
       /\ store' = [embeddings |->
                      UpsertEmbedding(store.embeddings, NewEmbedding(nodeId, vector, model))]
       /\ outcome' = Called([nodeId |-> nodeId, vector |-> vector, model |-> model], NoValue)
  /\ runs' = runs + 1
  /\ UNCHANGED << pc, fileRecords, domains, clusters, subtopicStructures, assignments,
                  idx, attempt, lpc, providerCalls, waits, llmCallCount, phaseLog,
                  storeBefore, txn >>

InitEmbed ==
  /\ pc = "saveEmbedding"
  /\ fileRecords = << >>
  /\ domains = NoValue
  /\ clusters = << >>
  /\ subtopicStructures = << >>
  /\ assignments = << >>
  /\ idx = 0
  /\ attempt = 0
  /\ lpc = "none"
  /\ providerCalls = 0
  /\ waits = << >>
  /\ llmCallCount = 0
  /\ outcome = NoValue
  /\ phaseLog = << >>
  /\ store = [embeddings |-> { }]
  /\ storeBefore = EmptyStore
  /\ txn = IdleTxn
  /\ runs = 0

NextEmbed == saveEmbedding

SpecEmbed == InitEmbed /\ [][NextEmbed]_vars

(* the exact L2 norm of a stored vector is 1                                 *)
RECURSIVE SquareSum(_, _)
SquareSum(comps, k) ==
  IF k = 0 THEN 0 ELSE SquareSum(comps, k - 1) + comps[k].val * comps[k].val

AllFinite(comps) == \A i \in 1..Len(comps) : comps[i].kind = "finite"

HasUnitNorm(vec) == AllFinite(vec.comps) /\ SquareSum(vec.comps, Len(vec.comps)) = vec.sq

IsZeroVector(vector) == \A i \in 1..Len(vector) : vector[i] = Fin(0)

OneRowPerId(rows) == \A r1 \in rows : \A r2 \in rows : r1.id = r2.id => r1 = r2

(* the save just made left the row of its id with its vector and model and   *)
(* every other row as it was                                                 *)
SavedLatest ==
  outcome' # outcome =>
    LET a == outcome'.args
    IN /\ \E r \in store'.embeddings :
            /\ r.id = a.nodeId /\ r.model = a.model
            /\ r.vector.comps = IF AllFinite(a.vector) THEN a.vector ELSE r.vector.comps
            /\ (AllFinite(a.vector) /\ ~IsZeroVector(a.vector)) => HasUnitNorm(r.vector)
       /\ { r \in store'.embeddings : r.id # a.nodeId }
            = { r \in store.embeddings : r.id # a.nodeId }

-----------------------------------------------------------------------------
(* DirectoryTreeService.buildTree.  A path is the sequence of its segments   *)
(* ("src/app.ts" is << "src", "app.ts" >>, "" is << >>); the tree is kept as *)
(* buildInMemoryTree's nodeMap, path -> node, a node's children being the    *)
(* paths of its child nodes in the order they were pushed.  In this part     *)
(* store is summary-cache.sqlite: [directories |-> rows].                    *)

TreeMaxFiles == 4
TreeMaxBuilds == 2

DotPath == << "." >>

(* node:path dirname of a relative path                                      *)
dirname(path) == IF Len(path) <= 1 THEN DotPath ELSE SubSeq(path, 1, Len(path) - 1)

(* node:path basename                                                        *)
basename(path) == IF path = << >> THEN "" ELSE path[Len(path)]

RECURSIVE PathString(_)
PathString(path) ==
  IF path = << >> THEN ""
  ELSE IF Len(path) = 1 THEN path[1]
  ELSE PathString(SubSeq(path, 1, Len(path) - 1)) \o "/" \o path[Len(path)]

(* sha256(path), first 16 hex digits: one id per path                        *)
generateDirId(path) == "sha256:" \o PathString(path)

RootNode ==
  [id |-> "root", name |-> "root", path |-> << >>, parentId |-> NullId, summary |-> "",
   loc |-> 0, fileCount |-> 0, children |-> << >>, files |-> << >>]

RECURSIVE ensureDirectoryPath(_, _)
ensureDirectoryPath(dirPath, nodeMap) ==
  IF dirPath = << >> \/ dirPath = DotPath \/ dirPath \in DOMAIN nodeMap THEN nodeMap
  ELSE LET parentPath == dirname(dirPath)
           withParent == ensureDirectoryPath(parentPath, nodeMap)
           parentKey == IF parentPath = DotPath THEN << >> ELSE parentPath
           parent == withParent[parentKey]
           dirNode == [id |-> generateDirId(dirPath), name |-> basename(dirPath),
                       path |-> dirPath,
                       parentId |-> IF parent.id = "root" THEN NullId ELSE parent.id,
                       summary |-> "", loc |-> 0, fileCount |-> 0,
                       children |-> << >>, files |-> << >>]
       IN [p \in DOMAIN withParent \cup { dirPath } |->
             IF p = dirPath THEN dirNode
             ELSE IF p = parentKey
               THEN [withParent[p] EXCEPT !.children = Append(@, dirPath)]
             ELSE withParent[p]]

(* the directory a file is pushed to                                         *)
FileDirPath(file) == IF dirname(file.path) = DotPath THEN << >> ELSE dirname(file.path)

(* buildInMemoryTree after the first k file records                          *)
RECURSIVE buildInMemoryTree(_, _)
buildInMemoryTree(records, k) ==
  IF k = 0 THEN [p \in { << >> } |-> RootNode]
  ELSE LET file == records[k]
           dirPath == FileDirPath(file)
           nodeMap == ensureDirectoryPath(dirPath, buildInMemoryTree(records, k - 1))
       IN IF dirPath \in DOMAIN nodeMap
            THEN [nodeMap EXCEPT ![dirPath].files = Append(@, file.id)]
            ELSE nodeMap

(* fileRecordMap.get(fileId).summary.loc: the last record with this id, 0    *)
(* when there is none                                                        *)
RECURSIVE FileLoc(_, _, _)
FileLoc(records, fileId, k) ==
  IF k = 0 THEN 0
  ELSE IF records[k].id = fileId THEN records[k].loc
  ELSE FileLoc(records, fileId, k - 1)

RECURSIVE FilesLoc(_, _, _)
FilesLoc(records, files, k) ==
  IF k = 0 THEN 0
  ELSE FilesLoc(records, files, k - 1) + FileLoc(records, files[k], Len(records))

(* variant: only the files directly in the directory are counted             *)
NodeFileCountDirect(nodeMap, path) == Len(nodeMap[path].files)

(* calculateMetrics: fileCount and loc of a node, its children first         *)
RECURSIVE NodeFileCount(_, _)
RECURSIVE ChildrenFileCount(_, _, _)
NodeFileCount(nodeMap, path) ==
  Len(nodeMap[path].files)
    + ChildrenFileCount(nodeMap, nodeMap[path].children, Len(nodeMap[path].children))

ChildrenFileCount(nodeMap, children, k) ==
  IF k = 0 THEN 0
  ELSE ChildrenFileCount(nodeMap, children, k - 1) + NodeFileCount(nodeMap, children[k])

RECURSIVE NodeLoc(_, _, _)
RECURSIVE ChildrenLoc(_, _, _, _)
NodeLoc(nodeMap, records, path) ==
  ChildrenLoc(nodeMap, records, nodeMap[path].children, Len(nodeMap[path].children))
    + FilesLoc(records, nodeMap[path].files, Len(nodeMap[path].files))

ChildrenLoc(nodeMap, records, children, k) ==
  IF k = 0 THEN 0
  ELSE ChildrenLoc(nodeMap, records, children, k - 1) + NodeLoc(nodeMap, records, children[k])

calculateMetrics(nodeMap, records) ==
  [p \in DOMAIN nodeMap |->
     [nodeMap[p] EXCEPT !.loc = NodeLoc(nodeMap, records, p),
                        !.fileCount = NodeFileCount(nodeMap, p)]]

(* the items of a directory as the summaries list them                       *)
ItemList(node) ==
  [i \in 1..(Len(node.children) + Len(node.files)) |->
     IF i <= Len(node.children) THEN basename(node.children[i]) \o "/"
     ELSE node.files[i - Len(node.children)]]

RECURSIVE Joined(_, _)
Joined(items, k) ==
  IF k = 0 THEN ""
  ELSE IF k = 1 THEN items[1]
  ELSE Joined(items, k - 1) \o ", " \o items[k]

generateHeuristicSummary(node) ==
  "Contains " \o Joined(ItemList(node), Len(ItemList(node)))

(* generateLLMSummary: the summariser's sentence, or the fallback when it    *)
(* throws                                                                    *)
generateLLMSummary(node, llm) ==
  IF llm = "answers" THEN "llm summary of " \o node.name
  ELSE "Directory containing " \o ToString(Len(ItemList(node))) \o " items"

generateDirectorySummaries(nodeMap, llm) ==
  [p \in DOMAIN nodeMap |->
     LET node == nodeMap[p]
         childCount == Len(node.children) + Len(node.files)
     IN [node EXCEPT !.summary =
           IF childCount = 0 THEN "[empty directory]"
           ELSE IF childCount <= 3 THEN generateHeuristicSummary(node)
           ELSE generateLLMSummary(node, llm)]]

(* persistTree: delete every row, insert every node but the root             *)
persistTree(nodeMap) ==
  { [id |-> nodeMap[p].id, name |-> nodeMap[p].name, path |-> PathString(p),
     parentId |-> nodeMap[p].parentId, summary |-> nodeMap[p].summary,
     loc |-> nodeMap[p].loc, fileCount |-> nodeMap[p].fileCount] :
      p \in { q \in DOMAIN nodeMap : nodeMap[q].id # "root" } }

(* the files of a scan: relative paths, all different, ids by position       *)
TreePaths ==
  { << "a.ts" >>, << "b.ts" >>, << "src", "app.ts" >>, << "src", "utils", "helper.ts" >>,
    << "tests", "app.test.ts" >> }

TreeLoc(path) ==
  IF path = << "a.ts" >> THEN 25
  ELSE IF path = << "b.ts" >> THEN 50
  ELSE IF path = << "src", "app.ts" >> THEN 200
  ELSE IF path = << "src", "utils", "helper.ts" >> THEN 150
  ELSE 100

TreeInputs ==
  { [i \in 1..Len(ps) |-> [id |-> FileIdOf(i), path |-> ps[i], loc |-> TreeLoc(ps[i])]] :
      ps \in { q \in SeqsUpTo(TreePaths, TreeMaxFiles) :
                 \A i \in 1..Len(q) : \A j \in 1..Len(q) : q[i] = q[j] => i = j } }

buildTree ==
  /\ runs < TreeMaxBuilds
  /\ \E records \in TreeInputs, llm \in { "answers", "throws" } :
       LET tree == generateDirectorySummaries(
                     calculateMetrics(buildInMemoryTree(records, Len(records)), records), llm)
       IN /\ store' = [directories |-> persistTree(tree)]
          /\ outcome' = Called(records, tree)
  /\ runs' = runs + 1
  /\ UNCHANGED << pc, fileRecords, domains, clusters, subtopicStructures, assignments,
                  idx, attempt, lpc, providerCalls, waits, llmCallCount, phaseLog,
                  storeBefore, txn >>

InitTree ==
  /\ pc = "buildTree"
  /\ fileRecords = << >>
  /\ domains = NoValue
  /\ clusters = << >>
  /\ subtopicStructures = << >>
  /\ assignments = << >>
  /\ idx = 0
  /\ attempt = 0
  /\ lpc = "none"
  /\ providerCalls = 0
  /\ waits = << >>
  /\ llmCallCount = 0
  /\ outcome = NoValue
  /\ phaseLog = << >>
  /\ store = [directories |-> { }]
  /\ storeBefore = EmptyStore
  /\ txn = IdleTxn
  /\ runs = 0

NextTree == buildTree

SpecTree == InitTree /\ [][NextTree]_vars

(* path p is path q or one of its ancestors                                  *)
IsPrefix(p, q) == Len(p) <= Len(q) /\ SubSeq(q, 1, Len(p)) = p

(* the input records lying in the subtree of the directory p                 *)
RecordsUnder(records, p) ==
  { i \in 1..Len(records) : IsPrefix(p, SubSeq(records[i].path, 1, Len(records[i].path) - 1)) }

RECURSIVE LocSum(_, _)
LocSum(records, S) ==
  IF S = { } THEN 0
  ELSE LET i == CHOOSE x \in S : TRUE
       IN records[i].loc + LocSum(records, S \ { i })

(* how often a file id occurs in a node's files                              *)
Occurrences(files, id) == Cardinality({ k \in 1..Len(files) : files[k] = id })

(* C20: after buildTree every node's fileCount is the number of files in its *)
(* subtree and its loc the sum of their summary.loc; the root's fileCount is *)
(* the number of input records; each file id is held by exactly one node,    *)
(* the one whose path is the file's parent directory.                        *)
C20_TreeMetrics ==
  outcome # NoValue =>
    LET records == outcome.args
        tree == outcome.value
    IN /\ \A p \in DOMAIN tree :
            /\ tree[p].fileCount = Cardinality(RecordsUnder(records, p))
            /\ tree[p].loc = LocSum(records, RecordsUnder(records, p))
       /\ tree[<< >>].fileCount = Len(records)
       /\ \A i \in 1..Len(records) :
            \A p \in DOMAIN tree :
              Occurrences(tree[p].files, records[i].id) =
                IF p = SubSeq(records[i].path, 1, Len(records[i].path) - 1) THEN 1 ELSE 0

(* the tree of the repository's own test, with a file in the root            *)
C20_Witness ==
  /\ outcome # NoValue
  /\ Len(outcome.args) = 4
  /\ << "src", "utils" >> \in DOMAIN outcome.value
  /\ outcome.value[<< "src" >>].loc = 350
  /\ outcome.value[<< "src" >>].fileCount = 2
  /\ outcome.value[<< >>].fileCount = 4
  /\ Cardinality(store.directories) = 3

-----------------------------------------------------------------------------
(* summariseFile(filePath, opts): the summariser with its sqlite cache.      *)
(* The cache of one cacheDir is `store.summary_cache`; a file's content is   *)
(* the list of its top-level declarations, one line each.                    *)

SumMaxCalls == 3

MODEL_VERSION == "2025-07"

JsonNull == "json-null"

SumPaths == { "x.ts", "y.txt" }

SumContents == { << "fa" >>, << "fa", "fb" >> }

(* sha256 over the content and then MODEL_VERSION, taken as collision free *)
computeHash(content) == << "sha256", content, MODEL_VERSION >>

detectLanguage(filename) == IF filename = "x.ts" THEN "typescript" ELSE "plain"

(* one chunk per top-level declaration, the whole file without a grammar *)
chunkFileAST(content, language) ==
  IF language = "plain" THEN << content >>
  ELSE [ i \in 1..Len(content) |-> << content[i] >> ]

(* what summariseChunk can return: the provider's answer as parsed, with or *)
(* without the fields the schema asks for (`absent` names the fields the    *)
(* answer lacks), or the placeholder of the last failed attempt             *)
SummaryAnswers ==
  { [title |-> "T", summary |-> "S", functions |-> << "f" >>, classes |-> << >>,
     absent |-> {}],
    [title |-> Undefined, summary |-> "S", functions |-> << "f" >>,
     classes |-> << >>, absent |-> { "title" }],
    [title |-> "T", summary |-> "S", functions |-> << >>, classes |-> << >>,
     absent |-> { "functions" }],
    [title |-> "[[ANALYSIS_ERROR]]", summary |-> "Failed to analyse after 3 attempts",
     functions |-> << >>, classes |-> << >>, absent |-> {}] }

(* summaries.flatMap(s => s.functions): a missing list contributes undefined *)
RECURSIVE FlatMapField(_, _)
FlatMapField(summaries, field) ==
  IF summaries = << >> THEN << >>
  ELSE (IF field \in summaries[1].absent THEN << Undefined >>
        ELSE summaries[1][field])
       \o FlatMapField(Tail(summaries), field)

(* summaries.map(s => s.summary).join("\n\n"): undefined joins as "" *)
RECURSIVE JoinSummaries(_)
JoinSummaries(summaries) ==
  IF summaries = << >> THEN ""
  ELSE (IF summaries[1].summary = Undefined THEN "" ELSE summaries[1].summary)
       \o (IF Len(summaries) = 1 THEN ""
           ELSE "\n\n" \o JoinSummaries(Tail(summaries)))

MergedSummary(summaries, content) ==
  [title     |-> summaries[1].title,
   summary   |-> JoinSummaries(summaries),
   functions |-> FlatMapField(summaries, "functions"),
   classes   |-> FlatMapField(summaries, "classes"),
   loc       |-> Len(content)]

(* JSON.stringify: a key whose value is undefined is left out, an undefined *)
(* array element is written as null                                          *)
StringifyList(list) ==
  [ i \in 1..Len(list) |-> IF list[i] = Undefined THEN JsonNull ELSE list[i] ]

StringifySummary(s) ==
  LET body == [summary   |-> s.summary,
               functions |-> StringifyList(s.functions),
               classes   |-> StringifyList(s.classes),
               loc       |-> s.loc]
  IN IF s.title = Undefined THEN body
     ELSE [ k \in DOMAIN body \cup { "title" } |->
              IF k = "title" THEN s.title ELSE body[k] ]

JsonStringify(result) ==
  [hash |-> result.hash, language |-> result.language,
   summary |-> StringifySummary(result.summary)]

(* JSON.parse gives back what the text holds *)
JsonParse(json) == json

CachedRows(st, hash) == { r \in st.summary_cache : r.hash = hash }

summariseFile(filePath, content, answers) ==
  LET hash == computeHash(content)
      language == detectLanguage(filePath)
      astChunks == chunkFileAST(content, language)
      summaries == [ i \in 1..Len(astChunks) |-> answers[i] ]
      result == [hash |-> hash, language |-> language,
                 summary |-> MergedSummary(summaries, content)]
  IN IF CachedRows(store, hash) # {}
     THEN [value |-> JsonParse((CHOOSE r \in CachedRows(store, hash) : TRUE).json),
           chunkCalls |-> 0,
           cache |-> store.summary_cache]
     ELSE [value |-> result,
           chunkCalls |-> Len(astChunks),
           cache |-> store.summary_cache
                       \cup { [hash |-> hash, json |-> JsonStringify(result)] }]

SummariseCall ==
  /\ pc = "summariseFile"
  /\ runs < SumMaxCalls
  /\ \E filePath \in SumPaths, content \in SumContents,
        answers \in [1..2 -> SummaryAnswers] :
       LET r == summariseFile(filePath, content, answers)
       IN /\ store' = [summary_cache |-> r.cache]
          /\ llmCallCount' = llmCallCount + r.chunkCalls
          /\ outcome' = Called(<< filePath, content >>, r.value)
          /\ phaseLog' = Append(phaseLog,
                                [filePath |-> filePath, content |-> content,
                                 result |-> r.value, chunkCalls |-> r.chunkCalls])
  /\ runs' = runs + 1
  /\ UNCHANGED << pc, fileRecords, domains, clusters, subtopicStructures,
                  assignments, idx, attempt, lpc, providerCalls, waits,
                  storeBefore, txn >>

InitSummarise ==
  /\ pc = "summariseFile"
  /\ fileRecords = << >>
  /\ domains = NoValue
  /\ clusters = NoValue
  /\ subtopicStructures = << >>
  /\ assignments = << >>
  /\ idx = 0
  /\ attempt = 0
  /\ lpc = "idle"
  /\ providerCalls = 0
  /\ waits = << >>
  /\ llmCallCount = 0
  /\ outcome = NoValue
  /\ phaseLog = << >>
  /\ store = [summary_cache |-> {}]
  /\ storeBefore = EmptyStore
  /\ txn = NoValue
  /\ runs = 0

NextSummarise == SummariseCall

SpecSummarise == InitSummarise /\ [][NextSummarise]_vars

(* expect(result1).toEqual(result2): a key holding undefined counts as absent *)
WithTitle(s) ==
  IF "title" \in DOMAIN s THEN s
  ELSE [ k \in DOMAIN s \cup { "title" } |-> IF k = "title" THEN Undefined ELSE s[k] ]

ToEqual(a, b) ==
  /\ a.hash = b.hash
  /\ a.language = b.language
  /\ WithTitle(a.summary) = WithTitle(b.summary)

(* C21: a later summariseFile call on the same file with unchanged content   *)
(* and the same cacheDir returns a result equal to the first call's and      *)
(* makes no summariseChunk call; equal contents have equal hashes and        *)
(* different contents different hashes.                                      *)
C21_CachedByContentHash ==
  pc = "summariseFile" =>
    \A i, j \in 1..Len(phaseLog) :
      /\ (i < j /\ phaseLog[i].filePath = phaseLog[j].filePath
                /\ phaseLog[i].content = phaseLog[j].content)
           => /\ ToEqual(phaseLog[i].result, phaseLog[j].result)
              /\ phaseLog[j].chunkCalls = 0
      /\ (phaseLog[i].content = phaseLog[j].content)
           <=> (phaseLog[i].result.hash = phaseLog[j].result.hash)

-----------------------------------------------------------------------------
(* The clusters returned by generateStructureForDomains (SpecCluster)        *)

CandidateCount(cluster, id) ==
  Cardinality({ j \in 1..Len(cluster.candidates) : cluster.candidates[j].id = id })

SelectedBy(file, c) == KeepsAtThreshold(file, domains.topLevelDomains[c].vec)

SelectedBySome(file) == \E c \in 1..Len(domains.topLevelDomains) : SelectedBy(file, c)

SimilarityTo(file, c) == cosineSimilarity(file.vec, domains.topLevelDomains[c].vec)

(* C22: in the clusters returned, a file that no domain selects at the      *)
(* threshold is a candidate of exactly one cluster, once, and no domain is  *)
(* strictly more similar to the file than that cluster's domain; a file     *)
(* that some domain selects is a candidate of exactly the clusters whose    *)
(* domains select it.                                                        *)
C22_ForcedToBestDomain ==
  pc = "subtopic" =>
    \A i \in 1..Len(fileRecords) :
      LET file == fileRecords[i]
          holders == { c \in 1..Len(clusters) : CandidateCount(clusters[c], file.id) > 0 }
      IN IF SelectedBySome(file)
           THEN \A c \in 1..Len(clusters) :
                  CandidateCount(clusters[c], file.id) = (IF SelectedBy(file, c) THEN 1 ELSE 0)
           ELSE /\ Cardinality(holders) = 1
                /\ \A c \in holders :
                     /\ CandidateCount(clusters[c], file.id) = 1
                     /\ \A d \in 1..Len(clusters) :
                          ~SimGT(SimilarityTo(file, d), SimilarityTo(file, c))

(* it returned with a file that no domain selects and whose most similar    *)
(* domain is the second, next to a file that the first domain selects       *)
C22_Witness ==
  /\ pc = "subtopic"
  /\ Len(clusters) = 2
  /\ \E i, k \in 1..Len(fileRecords) :
       /\ ~SelectedBySome(fileRecords[i])
       /\ SimGT(SimilarityTo(fileRecords[i], 2), SimilarityTo(fileRecords[i], 1))
       /\ CandidateCount(clusters[2], fileRecords[i].id) = 1
       /\ SelectedBy(fileRecords[k], 1)
       /\ ~SelectedBy(fileRecords[k], 2)

InputPosition(id) == CHOOSE i \in 1..Len(fileRecords) : fileRecords[i].id = id

SelectedCount(c) ==
  Cardinality({ i \in 1..Len(fileRecords) : SelectedBy(fileRecords[i], c) })

ContainsSelectedOnce(c) ==
  \A i \in 1..Len(fileRecords) :
    /\ SelectedBy(fileRecords[i], c) => CandidateCount(clusters[c], fileRecords[i].id) = 1
    /\ CandidateCount(clusters[c], fileRecords[i].id) <= 1

DescendingBetween(c, from, to) ==
  \A j \in from..(to - 1) :
    ~SimGT(SimilarityTo(clusters[c].candidates[j + 1], c),
           SimilarityTo(clusters[c].candidates[j], c))

(* C23 as stated: each returned candidate list holds every file of          *)
(* similarity at least 0.3 to its domain, holds no file twice, and is       *)
(* sorted by descending similarity to the domain from its first to its      *)
(* last element.                                                             *)
C23_WholeListSorted ==
  pc = "subtopic" =>
    \A c \in 1..Len(clusters) :
      /\ ContainsSelectedOnce(c)
      /\ DescendingBetween(c, 1, Len(clusters[c].candidates))

(* C23: each returned candidate list holds every file of similarity at      *)
(* least 0.3 to its domain and holds no file twice; the files selected at   *)
(* the threshold stand first, sorted by descending similarity to the        *)
(* domain, and the force-assigned files follow them in input order.         *)
C23_SelectedSortedFirst ==
  pc = "subtopic" =>
    \A c \in 1..Len(clusters) :
      LET cands == clusters[c].candidates
          k == SelectedCount(c)
      IN /\ ContainsSelectedOnce(c)
         /\ k <= Len(cands)
         /\ \A j \in 1..k : SelectedBy(cands[j], c)
         /\ DescendingBetween(c, 1, k)
         /\ \A j \in (k + 1)..Len(cands) : ~SelectedBy(cands[j], c)
         /\ \A j \in (k + 1)..(Len(cands) - 1) :
              InputPosition(cands[j].id) < InputPosition(cands[j + 1].id)

(* the sort moved a later, more similar file in front of an earlier one,    *)
(* a file is in the lists of both domains, and a force-assigned file        *)
(* follows the selected ones                                                 *)
C23_Witness ==
  /\ pc = "subtopic"
  /\ Len(clusters) = 2
  /\ \E c \in 1..2 :
       /\ Len(clusters[c].candidates) = 3
       /\ SelectedCount(c) = 2
       /\ InputPosition(clusters[c].candidates[1].id)
            > InputPosition(clusters[c].candidates[2].id)
       /\ SimGT(SimilarityTo(clusters[c].candidates[1], c),
                SimilarityTo(clusters[c].candidates[2], c))
  /\ \E i \in 1..Len(fileRecords) :
       SelectedBy(fileRecords[i], 1) /\ SelectedBy(fileRecords[i], 2)

-----------------------------------------------------------------------------
(* The per-domain loops of phases 3 and 4 (Spec)                             *)

InDomainLoop == pc \in { "subtopic", "assign" }

(* results[] of the running per-domain loop *)
LoopResults == IF pc = "subtopic" THEN subtopicStructures ELSE assignments

(* a provider request is in flight while the retry loop is at "call" *)
RequestInFlight == InDomainLoop /\ lpc = "call"

C24_Positions ==
  InDomainLoop =>
    /\ RequestInFlight => (idx < Len(clusters) /\ Len(LoopResults) = idx)
    /\ lpc = "backoff" => (idx < Len(clusters) /\ Len(LoopResults) = idx)
    /\ lpc = "pause" => (idx < Len(clusters) - 1 /\ Len(LoopResults) = idx + 1)

C24_Steps ==
  (InDomainLoop /\ pc' = pc) =>
    /\ idx' \in { idx, idx + 1 }
    /\ idx' = idx + 1 =>
         /\ Len(LoopResults') = idx + 1
         /\ IF idx + 1 < Len(clusters) THEN lpc = "pause" ELSE lpc = "call"
    /\ (lpc' = "call" /\ lpc # "call") =>
         \/ lpc = "loop" /\ attempt' = 1 /\ Len(LoopResults) = idx /\ idx' = idx
         \/ lpc = "backoff" /\ attempt' = attempt + 1 /\ idx' = idx
    /\ lpc = "call" => lpc' # "call"

(* C24: in the subtopic and assignment phases the domains are worked in     *)
(* cluster order with one request in flight at a time: a request for a      *)
(* domain is issued only when the results of all earlier domains are there, *)
(* a retry only after the failed request and its backoff, the loop moves    *)
(* from domain i to a following domain only through the 500 ms pause that   *)
(* follows domain i's result, and after the last domain's result it ends    *)
(* without a pause.                                                          *)
C24_OneRequestAtATime == [] C24_Positions /\ [][C24_Steps]_vars

(* the second domain's request is retried, after the pause that followed    *)
(* the first domain's result                                                 *)
C24_Witness ==
  /\ pc = "assign"
  /\ RequestInFlight
  /\ idx = 1
  /\ attempt = 2
  /\ Len(assignments) = 1
  /\ Len(subtopicStructures) = 2

-----------------------------------------------------------------------------
(* EmbeddingGateway: the cache of one gateway instance is `store.cache`, a   *)
(* Map from cacheKey to vector; a text is the sequence of its char codes.    *)

GatewayModel == "textembedding-gecko-002"

(* hash = ((hash << 5) - hash) + char; hash = hash & hash: 31 * hash + char *)
(* wrapped to a signed 32-bit integer, computed on 16-bit halves            *)
HashStep(hash, char) ==
  LET lo == hash % 65536
      hi == (hash - lo) \div 65536
      low == 31 * lo + char
      newLo == low % 65536
      newHi == ((31 * hi + (low \div 65536) + 32768) % 65536) - 32768
  IN newHi * 65536 + newLo

RECURSIVE HashLoop(_, _, _)
HashLoop(text, i, hash) ==
  IF i >= Len(text) THEN hash
  ELSE HashLoop(text, i + 1, HashStep(hash, text[i + 1]))

(* Math.abs(hash).toString() *)
AbsToString(hash) ==
  IF hash = -2147483647 - 1 THEN "2147483648"
  ELSE IF hash < 0 THEN ToString(-hash) ELSE ToString(hash)

hashText(text) ==
  IF Len(text) = 0 THEN "0" ELSE AbsToString(HashLoop(text, 0, 0))

CacheKey(text) == << GatewayModel, hashText(text) >>

CacheHas(cache, key) == \E e \in cache : e.key = key

CacheGet(cache, key) == (CHOOSE e \in cache : e.key = key).vector

CacheSet(cache, key, vector) ==
  { e \in cache : e.key # key } \cup { [key |-> key, vector |-> vector] }

(* what the provider's embedding endpoint answers for a text *)
ProviderVector(text) == [embeddingOf |-> text]

-----------------------------------------------------------------------------
(* structureGenerator: generateFileEmbeddings(files, embeddingGateway) with  *)
(* a gateway of its own. `txn` is the frame of the running call: embeddings  *)
(* holds, per position of the batch, the promise of that file's request.     *)

FeMaxFiles == 12

batchSize == 10

Pending == [state |-> "pending"]

Resolved(vector) == [state |-> "resolved", vector |-> vector]

(* "Aa" and "BB" are two texts of one hashText value *)
FeTitle(i, family) ==
  IF family = "colliding" /\ i = batchSize + 1 THEN << 66, 66 >>
  ELSE IF family = "repeating" /\ i = batchSize + 1 THEN << 65, 97 >>
  ELSE << 65, 96 + i >>

FeFiles(n, family) ==
  [ i \in 1..n |-> [id |-> FileIdOf(i), path |-> FilePathOf(i),
                    title |-> FeTitle(i, family), summary |-> << 115 >>] ]

(* `${file.title}: ${file.summary}` *)
EmbeddingText(file) == file.title \o << 58, 32 >> \o file.summary

(* files.slice(i, i + batchSize) *)
FileBatch(files, i) ==
  SubSeq(files, i + 1, IF i + batchSize < Len(files) THEN i + batchSize ELSE Len(files))

(* batch.map(async file => generateEmbedding(text)): every call runs up to  *)
(* its first await, so a cached key is answered from the cache and every    *)
(* other text is sent to the provider                                        *)
IssueBatch(cache, batch) ==
  [ j \in 1..Len(batch) |->
      IF CacheHas(cache, CacheKey(EmbeddingText(batch[j])))
        THEN Resolved(CacheGet(cache, CacheKey(EmbeddingText(batch[j]))))
        ELSE Pending ]

FeFrame(i, embeddings, out) ==
  [pos |-> "batch", embeddings |-> embeddings, out |-> out]

FeStart ==
  /\ pc = "generateFileEmbeddings"
  /\ txn = IdleTxn
  /\ IF Len(fileRecords) = 0
       THEN /\ txn' = [pos |-> "returned", embeddings |-> << >>, out |-> << >>]
            /\ outcome' = Called(fileRecords, << >>)
            /\ runs' = runs + 1
       ELSE /\ txn' = FeFrame(0, IssueBatch(store.cache, FileBatch(fileRecords, 0)), << >>)
            /\ UNCHANGED << outcome, runs >>
  /\ UNCHANGED << pc, fileRecords, domains, clusters, subtopicStructures, assignments,
                  idx, attempt, lpc, providerCalls, waits, llmCallCount, phaseLog,
                  store, storeBefore >>

(* the provider answers one of the requests in flight: the gateway caches   *)
(* the vector and the request's promise resolves                             *)
FeResolve ==
  /\ pc = "generateFileEmbeddings"
  /\ txn.pos = "batch"
  /\ \E j \in 1..Len(txn.embeddings) :
       /\ txn.embeddings[j] = Pending
       /\ LET text == EmbeddingText(FileBatch(fileRecords, idx)[j])
          IN /\ store' = [cache |-> CacheSet(store.cache, CacheKey(text), ProviderVector(text))]
             /\ txn' = [txn EXCEPT !.embeddings[j] = Resolved(ProviderVector(text))]
  /\ providerCalls' = providerCalls + 1
  /\ UNCHANGED << pc, fileRecords, domains, clusters, subtopicStructures, assignments,
                  idx, attempt, lpc, waits, llmCallCount, outcome, phaseLog,
                  storeBefore, runs >>

(* the provider fails one of the requests in flight: Promise.all rejects    *)
(* and generateFileEmbeddings throws                                         *)
FeReject ==
  /\ pc = "generateFileEmbeddings"
  /\ txn.pos = "batch"
  /\ \E j \in 1..Len(txn.embeddings) : txn.embeddings[j] = Pending
  /\ txn' = [txn EXCEPT !.pos = "threw"]
  /\ outcome' = [threw |-> TRUE, error |-> "embedding API error", cause |-> "provider"]
  /\ providerCalls' = providerCalls + 1
  /\ runs' = runs + 1
  /\ UNCHANGED << pc, fileRecords, domains, clusters, subtopicStructures, assignments,
                  idx, attempt, lpc, waits, llmCallCount, phaseLog, store, storeBefore >>

(* Promise.all resolved: the batch's files are pushed with their vectors,   *)
(* then the next batch is issued or the list is returned                     *)
FeBatchDone ==
  /\ pc = "generateFileEmbeddings"
  /\ txn.pos = "batch"
  /\ \A j \in 1..Len(txn.embeddings) : txn.embeddings[j] # Pending
  /\ LET batch == FileBatch(fileRecords, idx)
         out == txn.out \o [ j \in 1..Len(batch) |->
                               [file |-> batch[j], embedding |-> txn.embeddings[j].vector] ]
     IN IF idx + batchSize < Len(fileRecords)
          THEN /\ idx' = idx + batchSize
               /\ txn' = FeFrame(idx + batchSize,
                                 IssueBatch(store.cache, FileBatch(fileRecords, idx + batchSize)),
                                 out)
               /\ UNCHANGED << outcome, runs >>
          ELSE /\ txn' = [pos |-> "returned", embeddings |-> << >>, out |-> out]
               /\ outcome' = Called(fileRecords, out)
               /\ runs' = runs + 1
               /\ UNCHANGED idx
  /\ UNCHANGED << pc, fileRecords, domains, clusters, subtopicStructures, assignments,
                  attempt, lpc, providerCalls, waits, llmCallCount, phaseLog, store,
                  storeBefore >>

InitFileEmbed ==
  /\ pc = "generateFileEmbeddings"
  /\ fileRecords \in { FeFiles(n, family) :
                         n \in 0..FeMaxFiles,
                         family \in { "distinct", "colliding", "repeating" } }
  /\ domains = NoValue
  /\ clusters = NoValue
  /\ subtopicStructures = << >>
  /\ assignments = << >>
  /\ idx = 0
  /\ attempt = 0
  /\ lpc = "idle"
  /\ providerCalls = 0
  /\ waits = << >>
  /\ llmCallCount = 0
  /\ outcome = NoValue
  /\ phaseLog = << >>
  /\ store = [cache |-> {}]
  /\ storeBefore = EmptyStore
  /\ txn = IdleTxn
  /\ runs = 0

NextFileEmbed == FeStart \/ FeResolve \/ FeReject \/ FeBatchDone

SpecFileEmbed == InitFileEmbed /\ [][NextFileEmbed]_vars

RequestsInFlight ==
  IF txn.pos = "batch"
    THEN Cardinality({ j \in 1..Len(txn.embeddings) : txn.embeddings[j] = Pending })
    ELSE 0

(* C25: generateFileEmbeddings has at most 10 requests in flight, all of    *)
(* one batch; a batch is issued only when every earlier file has its        *)
(* vector; and the i-th output is the i-th input file with the vector the   *)
(* provider returns for that file's own "title: summary" text.              *)
C25_BatchedAndPaired ==
  pc = "generateFileEmbeddings" =>
    /\ RequestsInFlight <= batchSize
    /\ txn.pos = "batch" =>
         /\ Len(txn.out) = idx
         /\ Len(txn.embeddings) <= batchSize
         /\ idx + Len(txn.embeddings) <= Len(fileRecords)
    /\ txn.pos = "returned" =>
         /\ Len(txn.out) = Len(fileRecords)
         /\ \A i \in 1..Len(fileRecords) :
              /\ txn.out[i].file = fileRecords[i]
              /\ txn.out[i].embedding = ProviderVector(EmbeddingText(fileRecords[i]))

(* C26: a batch after the first is issued only after a delay was awaited    *)
(* since the batch before it completed: one delay per batch boundary.       *)
C26_DelayBetweenBatches ==
  (pc = "generateFileEmbeddings" /\ txn.pos = "batch") =>
    Len(waits) >= idx \div batchSize

-----------------------------------------------------------------------------
(* EmbeddingGateway.generateEmbedding called any number of times on one      *)
(* instance, the calls overlapping freely. `txn.pending` holds the calls     *)
(* that wait for the provider, `phaseLog` the calls that ended.              *)

GwMaxCalls == 3

(* "", "Aa", "BB" and "Ab"; "Aa" and "BB" have the same hashText value *)
GwTexts == { << >>, << 65, 97 >>, << 66, 66 >>, << 65, 98 >> }

GwEnded(call, text, vector, source) ==
  [call |-> call, text |-> text, vector |-> vector, source |-> source]

(* generateEmbedding(text) up to its first await: answered from the cache,  *)
(* or handed to the provider                                                 *)
GwCall ==
  /\ pc = "generateEmbedding"
  /\ runs < GwMaxCalls
  /\ \E text \in GwTexts :
       IF CacheHas(store.cache, CacheKey(text))
         THEN /\ phaseLog' = Append(phaseLog,
                                    GwEnded(runs + 1, text,
                                            CacheGet(store.cache, CacheKey(text)), "cache"))
              /\ outcome' = Called(text, CacheGet(store.cache, CacheKey(text)))
              /\ UNCHANGED txn
         ELSE /\ txn' = [txn EXCEPT !.pending = @ \cup { [call |-> runs + 1, text |-> text] }]
              /\ UNCHANGED << phaseLog, outcome >>
  /\ runs' = runs + 1
  /\ UNCHANGED << pc, fileRecords, domains, clusters, subtopicStructures, assignments,
                  idx, attempt, lpc, providerCalls, waits, llmCallCount, store,
                  storeBefore >>

(* the provider answers: this.cache.set(cacheKey, result.vector); return    *)
GwProviderReturns ==
  /\ pc = "generateEmbedding"
  /\ \E c \in txn.pending :
       /\ txn' = [txn EXCEPT !.pending = @ \ { c }]
       /\ store' = [cache |-> CacheSet(store.cache, CacheKey(c.text), ProviderVector(c.text))]
       /\ phaseLog' = Append(phaseLog,
                             GwEnded(c.call, c.text, ProviderVector(c.text), "provider"))
       /\ outcome' = Called(c.text, ProviderVector(c.text))
  /\ providerCalls' = providerCalls + 1
  /\ UNCHANGED << pc, fileRecords, domains, clusters, subtopicStructures, assignments,
                  idx, attempt, lpc, waits, llmCallCount, storeBefore, runs >>

(* callEmbeddingAPI throws: the call rejects before the cache is written    *)
GwProviderThrows ==
  /\ pc = "generateEmbedding"
  /\ \E c \in txn.pending :
       /\ txn' = [txn EXCEPT !.pending = @ \ { c }]
       /\ phaseLog' = Append(phaseLog, GwEnded(c.call, c.text, NoValue, "threw"))
       /\ outcome' = [threw |-> TRUE, error |-> "embedding API error", cause |-> c.text]
  /\ providerCalls' = providerCalls + 1
  /\ UNCHANGED << pc, fileRecords, domains, clusters, subtopicStructures, assignments,
                  idx, attempt, lpc, waits, llmCallCount, store, storeBefore, runs >>

InitGateway ==
  /\ pc = "generateEmbedding"
  /\ fileRecords = << >>
  /\ domains = NoValue
  /\ clusters = NoValue
  /\ subtopicStructures = << >>
  /\ assignments = << >>
  /\ idx = 0
  /\ attempt = 0
  /\ lpc = "idle"
  /\ providerCalls = 0
  /\ waits = << >>
  /\ llmCallCount = 0
  /\ outcome = NoValue
  /\ phaseLog = << >>
  /\ store = [cache |-> {}]
  /\ storeBefore = EmptyStore
  /\ txn = [pos |-> "gateway", pending |-> {}]
  /\ runs = 0

NextGateway == GwCall \/ GwProviderReturns \/ GwProviderThrows

SpecGateway == InitGateway /\ [][NextGateway]_vars

(* C30: every generateEmbedding call that returned, from the cache or from  *)
(* the provider, returned the vector the provider returns for its own text, *)
(* and every cache entry is the key and vector of a provider call that      *)
(* succeeded (a failed call left none).                                      *)
C30_CacheTransparent ==
  pc = "generateEmbedding" =>
    /\ \A k \in 1..Len(phaseLog) :
         phaseLog[k].source # "threw"
           => phaseLog[k].vector = ProviderVector(phaseLog[k].text)
    /\ \A e \in store.cache :
         \E k \in 1..Len(phaseLog) :
           /\ phaseLog[k].source = "provider"
           /\ CacheKey(phaseLog[k].text) = e.key
           /\ phaseLog[k].vector = e.vector

-----------------------------------------------------------------------------
(* The retry loops of discovery, subtopic generation and assignment (Spec)   *)

(* the waits of the stated policy after n failed attempts that were each    *)
(* followed by another attempt: 2^1, ..., 2^n seconds                        *)
PolicyWaits(n) == [ k \in 1..n |-> Pow2(k) ]

(* C27: the three retry loops follow one policy: whichever loop it is, the  *)
(* waits made before attempt a are 2^1, ..., 2^(a-1) seconds, one after     *)
(* each failed attempt that another attempt follows; a success ends the     *)
(* loop with no further call or wait; and the error is thrown after the     *)
(* third failed attempt, with the same calls and waits in all three loops.  *)
C27_OneRetryPolicy ==
  /\ LoopRunning /\ lpc = "call" =>
       /\ providerCalls = attempt - 1
       /\ waits = PolicyWaits(attempt - 1)
  /\ LoopThrew =>
       /\ providerCalls = 3
       /\ waits = PolicyWaits(2)
  /\ (pc # "idle" /\ ~LoopRunning /\ ~LoopThrew) =>
       waits = PolicyWaits(providerCalls - 1)

-----------------------------------------------------------------------------
(* Positions of domains, clusters, structures, assignments and topics (Spec) *)

ChildTopics(st, parentId) == { t \in st.topics : t.parentId = parentId }

DomainTopicName(i) == "domain-" \o ToString(i)

(* C28: index i means the same domain in every phase: cluster i carries the *)
(* i-th discovered domain, structure i is the result of the i-th subtopic   *)
(* call (made for cluster i), assignment i is valid for cluster i's         *)
(* candidates and structure i, and after a successful run the topic         *)
(* 'domain-i' (1-based) has the i-th domain's title and its child topics    *)
(* are exactly the subtopics of structure i, in their order.                *)
C28_PositionalCorrespondence ==
  /\ pc \in { "subtopic", "assign", "persist", "done" } =>
       /\ Len(clusters) = Len(domains.topLevelDomains)
       /\ \A i \in 1..Len(clusters) : clusters[i].domain = domains.topLevelDomains[i]
       /\ Len(subtopicStructures) <= Len(clusters)
       /\ Len(assignments) <= Len(subtopicStructures)
  /\ (pc = "subtopic" /\ lpc = "call") => Len(subtopicStructures) = idx
  /\ pc \in { "assign", "persist", "done" } =>
       /\ Len(subtopicStructures) = Len(clusters)
       /\ \A i \in 1..Len(assignments) :
            validateAssignmentResult(assignments[i],
              [domain |-> domains.topLevelDomains[i],
               candidates |-> clusters[i].candidates,
               subtopics |-> subtopicStructures[i]]) = ""
  /\ pc = "done" =>
       \A i \in 1..Len(domains.topLevelDomains) :
         /\ \E t \in store.topics :
              /\ t.id = DomainTopicName(i)
              /\ t.title = domains.topLevelDomains[i].title
         /\ ChildTopics(store, DomainTopicName(i))
              = { [id |-> DomainTopicName(i) \o "-sub-" \o ToString(k),
                   title |-> subtopicStructures[i].subtopics[k].title,
                   parentId |-> DomainTopicName(i), depth |-> 2, isRoot |-> FALSE] :
                  k \in 1..Len(subtopicStructures[i].subtopics) }

(* a run succeeded for two domains whose structures differ                  *)
C28_Witness ==
  /\ pc = "done"
  /\ Len(domains.topLevelDomains) = 2
  /\ Len(subtopicStructures[1].subtopics) # Len(subtopicStructures[2].subtopics)
  /\ Cardinality(ChildTopics(store, DomainTopicName(2))) > 0
  /\ Cardinality(ChildTopics(store, DomainTopicName(1))) > 0

-----------------------------------------------------------------------------
(* Referential integrity while persistOntologyToDatabase runs (SpecPersist)  *)

ReferentialIntegrity(st) ==
  /\ \A l \in st.links : l.topicId \in TopicIds(st)
  /\ \A t \in st.topics : t.parentId = NullId \/ t.parentId \in TopicIds(st)

C29_States ==
  /\ ReferentialIntegrity(store)
  /\ txn.pos = "clearTopics" => store.links = {}

(* a step of the transaction other than its rollback *)
C29_Steps ==
  (pc = "persist" /\ txn'.pos # "threw") =>
    /\ (store.topics \ store'.topics # {}) => store.links = {}
    /\ \A t \in store'.topics \ store.topics :
         t.parentId = NullId \/ t.parentId \in TopicIds(store)
    /\ \A l \in store'.links \ store.links : l.topicId \in TopicIds(store)

(* C29: in every state of persistOntologyToDatabase, intermediate ones     *)
(* included, every link's topic and every topic's parent is in the topics   *)
(* table: no link is left when the topics are deleted, a topic is inserted  *)
(* when its parent is already there, and a link when its subtopic is.       *)
C29_ReferentialIntegrity == [] C29_States /\ [][C29_Steps]_vars

(* a second call has deleted the first call's links and topics and is       *)
(* inserting links again                                                     *)
C29_Witness ==
  /\ pc = "persist"
  /\ txn.pos = "insertLinks"
  /\ txn.backup.links # {}
  /\ store.links # {}
  /\ store.links # txn.backup.links

=============================================================================
